---- MODULE Spec2Model ----
(***************************************************************************)
(* Model of the geoschem-aws build tooling:                                *)
(*   - cmd/build-geoschem main (orchestrator) with its interrupt handler   *)
(*     goroutine and the SSHBuilder it drives             (Spec)           *)
(*   - ssh.KeyPairManager.GetOrCreateKeyPair   (SpecKey, SpecKeyCalls)     *)
(*   - builder.Builder.BuildMatrix / BuildSingle          (SpecMatrix)     *)
(*   - ssh.Client: WaitForConnection, the command calls,                   *)
(*     Close                                              (SpecClient)     *)
(*   - SSHBuilder.PrepareInstance                         (SpecPrepare)    *)
(*   - docker.DockerBuilder: the build pipeline           (SpecPipeline)   *)
(*   - DockerBuilder.buildDockerImage: the command string (SpecArgs)       *)
(*   - Builder.launchBuildInstance: image selection       (SpecLaunch)     *)
(*   - SSHBuilder.waitForInstanceReady                    (SpecWait)       *)
(*   - two concurrent SSHBuilder.BuildWithSSH runs        (SpecParallel)   *)
(*   - cmd/test-ssh main with its interrupt handler       (SpecTestSSH)    *)
(***************************************************************************)
EXTENDS Naturals, FiniteSets, Sequences, TLC

\* ------------------------------------------------------------------ state

VARIABLES
    \* cmd/build-geoschem main
    skipCleanup,    \* *skipCleanup, the -keep-instance flag
    skipBuild,      \* *skipBuild
    pushWanted,     \* *ecrRepository != "" && !*skipPush
    pc,             \* position of the main goroutine
    instanceID,     \* main's local "var instanceID string"
    sbInstanceID,   \* sb.instanceID
    sshClient,      \* sb.sshClient: "nil", "created", "connected", "closed"
    inst,           \* provider-side lifecycle state of the build node
    termRequests,   \* number of TerminateInstances calls issued for the node
    waiterRuns,     \* number of InstanceTerminatedWaiter.Wait calls completed
    ctxDone,        \* ctx (2h timeout, cancel()) is done
    cancelAt,       \* main's position when ctx became done, "" while it is not
    hpc,            \* position of the interrupt-handler goroutine
    cl,             \* per caller of cleanup(): progress inside CleanupInstance
    clResult,       \* per caller of cleanup(): what CleanupInstance returned
    exited,         \* "running", "exit0" (main returned), "exit1" (os.Exit(1))
    fatalErr,       \* the step whose error log.Fatalf reported, "" if none
    bwsErr,         \* the BuildWithSSH sub-step that failed, "" if none
    logged,         \* non-fatal messages printed (log.Printf / Warning:)
    \* ssh.KeyPairManager
    awsKey,         \* key id registered with the provider under keyName, 0 = none
    privFile,       \* key id whose private half is in privateKeyPath, 0 = absent
    pubFile,        \* key id whose public half is in privateKeyPath.pub, 0 = absent
    keyGen,         \* number of key pairs generated so far
    kpLast,         \* record of the most recent GetOrCreateKeyPair call
    \* builder.Builder.BuildMatrix
    bmIdx,          \* index of the build BuildMatrix is running (1..MaxBuilds)
    bsPc,           \* position inside BuildSingle
    bsFailed,       \* the step of the current BuildSingle that failed, "" if none
    bsErr,          \* error BuildSingle is about to return / returned, "" = nil
    bmInst,         \* provider-side state of each node BuildSingle launched
    bmTermReq,      \* TerminateInstances calls issued per node
    bmTermRet,      \* what terminateInstance returned per node
    bmWarn,         \* nodes for which "Warning: failed to terminate" was printed
    bmResult,       \* what BuildMatrix returned: "running", "ok", "error"
    \* ssh.Client (and sb.sshClient)
    cConn,          \* "noclient" (sb.sshClient == nil), "nil" (c.client == nil),
                    \* "open", "closed" (c.client non-nil, connection closed)
    cCtxDone,       \* the ctx handed to the Client's methods is done
    cLast,          \* record of the most recent ExecuteCommand /
                    \* ExecuteCommandStream / UploadFile call that returned
    cCall,          \* the command call in progress
    cOrphans,       \* remote processes still running after their call
                    \* returned ctx.Err()
    cShakes,        \* handshakes completed on this Client value
    wfcPc,          \* position inside WaitForConnection
    wfcMax,         \* its maxRetries argument
    wfcN,           \* the Connect attempt of this call the host first accepts
    wfcI,           \* the loop variable i
    wfcAttempts,    \* c.Connect calls made by this call
    wfcSlept,       \* seconds this call spent in time.After
    wfcCancel,      \* where this call stood when its ctx became done
    wfcResult,      \* what WaitForConnection returned, "" while it runs
    \* SSHBuilder.PrepareInstance
    ppPc,           \* position inside PrepareInstance
    ppSkip,         \* its skipUpdate argument
    ppLog,          \* the steps started so far, in order
    ppOK,           \* the steps that completed successfully
    ppFailed,       \* the steps that returned an error
    ppCheck,        \* what the reboot check returned
    ppResult,       \* what PrepareInstance returned, "" while it runs
    ppLate,         \* the commands started on the node with ctx already done
    ppCmdEnded,     \* the "sudo reboot" command has ended on the node
    \* docker.DockerBuilder as driven by steps 4 to 6 of main
    plPc,           \* the stage about to run, "done", or "fatal" (log.Fatalf)
    plFlags,        \* *skipBuild, *skipPush and *ecrRepository
    plLog,          \* the remote commands run so far, in order
    plFatal,        \* the message of log.Fatalf, "" if none
    plErr,          \* the error BuildContainer / PushToECR returned, "" if none
    plWarn,         \* the warnings printed
    plLogin,        \* what the registry login command returned
    plCleanupRet,   \* what CleanupImages returned, "" before it has
    \* DockerBuilder.buildDockerImage: the command string
    baPc,           \* "config", "built" (command string complete), "parsed"
    baArgs,         \* config.BuildArgs
    baOrder,        \* the order in which the range loop visited the keys
    baCmd,          \* the command string
    baWords,        \* the words the remote shell splits the command into
    \* builder.Builder.launchBuildInstance
    amPc,           \* "find", "found", "launched", "failed"
    amArch,         \* the arch argument
    amImages,       \* the images DescribeImages returns for the filter
    amCalls,        \* the provider calls made, in order
    amSelected,     \* the image id findLatestRockyLinuxAMI returned, 0 = none
    amErr,          \* the error returned, "" if none
    \* SSHBuilder.waitForInstanceReady
    wrPc,           \* "idle", "waiter", "describe", "returned"
    wrNode,         \* provider-side state of the node: "pending", "running"
    wrAddr,         \* the node has a public IP address
    wrPolls,        \* polls the running-waiter has made
    wrCtxDone,      \* the ctx handed to waitForInstanceReady is done
    wrResult,       \* "" while running, "ok", or the error returned
    \* two concurrent SSHBuilder.BuildWithSSH runs on one *common.BuildConfig
    cfgKeyPair,     \* config.AWS.KeyPair, the field both runs share
    bwPc,           \* per run: position inside BuildWithSSH
    bwLaunchKey,    \* per run: the KeyName its RunInstances request carried
    bwKeyFile,      \* per run: the key file handed to ssh.NewClient
    \* cmd/test-ssh main
    tsPc,           \* position of the main goroutine
    tsKeep,         \* *skipCleanup, the -keep-instance flag
    tsInstanceID,   \* main's local "var instanceID string"
    tsNode,         \* provider-side state of the node BuildWithSSH launched
    tsInfo,         \* number of system-information commands run so far
    tsFailed,       \* the step whose failure made main clean up and return
    tsTermReq,      \* number of TerminateInstances calls issued
    tsCtxDone,      \* ctx (30 min timeout, cancel()) is done
    tsHpc,          \* position of the interrupt-handler goroutine
    tsSigAt,        \* main's position when the interrupt arrived
    tsExited        \* "" while running, else "return", "fatal", "handler"

mainVars == <<skipCleanup, skipBuild, pushWanted, pc, instanceID, sbInstanceID,
              sshClient, inst, termRequests, waiterRuns, ctxDone, cancelAt, hpc, cl,
              clResult, exited, fatalErr, bwsErr, logged>>
keyVars == <<awsKey, privFile, pubFile, keyGen, kpLast>>
matrixVars == <<bmIdx, bsPc, bsFailed, bsErr, bmInst, bmTermReq, bmTermRet, bmWarn, bmResult>>
clientVars == <<cConn, cCtxDone, cLast, cCall, cOrphans, cShakes, wfcPc, wfcMax, wfcN, wfcI, wfcAttempts,
                wfcSlept, wfcResult, wfcCancel>>
prepVars == <<ppPc, ppSkip, ppLog, ppOK, ppFailed, ppCheck, ppResult, ppLate,
             ppCmdEnded>>
pipeVars == <<plPc, plFlags, plLog, plFatal, plErr, plWarn, plLogin, plCleanupRet>>
argVars == <<baPc, baArgs, baOrder, baCmd, baWords>>
amiVars == <<amPc, amArch, amImages, amCalls, amSelected, amErr>>
waitVars == <<wrPc, wrNode, wrAddr, wrPolls, wrCtxDone, wrResult>>
parVars == <<cfgKeyPair, bwPc, bwLaunchKey, bwKeyFile>>
tsVars == <<tsPc, tsKeep, tsInstanceID, tsNode, tsInfo, tsFailed, tsTermReq,
           tsCtxDone, tsHpc, tsSigAt, tsExited>>
moreVars == <<waitVars, parVars, tsVars>>
toolVars == <<pipeVars, argVars, amiVars, moreVars>>
sessVars == <<clientVars, prepVars, toolVars>>
vars == <<mainVars, keyVars, matrixVars, sessVars>>

\* ------------------------------------------------------------------ bounds

\* number of key pairs the model lets GenerateKeyPair produce
MaxKeys == 3
\* number of (arch, compiler, mpi) combinations BuildMatrix iterates over
MaxBuilds == 3
\* largest maxRetries handed to WaitForConnection by a direct caller
MaxRetries == 3
\* longest text dnf prints ahead of the exit status in the reboot check
MaxText == 1
\* remote processes that may outlive their calls at the same time
MaxOrphans == 2
\* handshakes a caller lets one Client value go through
MaxShakes == 2

\* ------------------------------------------------------------------ main

NoID == ""
NodeID == "i-1"
Callers == {"main", "handler"}

\* Result of a context-bound step: once ctx is done every SDK call and every
\* ExecuteCommand/ExecuteCommandStream select returns ctx.Err().
Outcomes == IF ctxDone THEN {"fail"} ELSE {"ok", "fail"}

\* log.Fatalf(...): the message is printed, then os.Exit(1) follows (MainFatal)
Fatal(step) == /\ pc' = "fatal"
               /\ fatalErr' = step

MainRunning == exited = "running"

\* kpLast when no GetOrCreateKeyPair call has been made since the last change
NoCall == [result |-> "none", prev |-> "none", lookup |-> "none",
           pre |-> [aws |-> 0, priv |-> 0, pub |-> 0, gen |-> 0],
           acts |-> {}, failed |-> {}]

KeyIdle == /\ awsKey = 0
           /\ privFile = 0
           /\ pubFile = 0
           /\ keyGen = 0
           /\ kpLast = NoCall

MatrixIdle == /\ bmIdx = 1
              /\ bsPc = "launch"
              /\ bsFailed = ""
              /\ bsErr = ""
              /\ bmInst = [i \in 1..MaxBuilds |-> "none"]
              /\ bmTermReq = [i \in 1..MaxBuilds |-> 0]
              /\ bmTermRet = [i \in 1..MaxBuilds |-> "none"]
              /\ bmWarn = {}
              /\ bmResult = "running"

MainIdle == /\ pc = "keypair"
            /\ instanceID = NoID
            /\ sbInstanceID = NoID
            /\ sshClient = "nil"
            /\ inst = "none"
            /\ termRequests = 0
            /\ waiterRuns = 0
            /\ ctxDone = FALSE
            /\ cancelAt = ""
            /\ hpc = "wait"
            /\ cl = [w \in Callers |-> "idle"]
            /\ clResult = [w \in Callers |-> "none"]
            /\ exited = "running"
            /\ fatalErr = ""
            /\ bwsErr = ""
            /\ logged = {}

\* cLast when no command call has been made
NoCmd == [op |-> "none", pre |-> "none", result |-> "none", ran |-> FALSE,
          killed |-> FALSE, out |-> FALSE, pending |-> FALSE, ctxAt |-> FALSE]

\* No WaitForConnection call and no command call made yet on a client whose
\* connection field is conn
\* the ctx of the WaitForConnection call has not become done
NoCancel == [at |-> "none", i |-> 0, attempts |-> 0]

ClientIdle(conn) == /\ cConn = conn
                    /\ cCtxDone = FALSE
                    /\ cLast = NoCmd
                    /\ cCall = [op |-> "none", pre |-> "none",
                                state |-> "idle", res |-> "none"]
                    /\ cOrphans = 0
                    /\ cShakes = (IF conn = "open" THEN 1 ELSE 0)
                    /\ wfcPc = "idle"
                    /\ wfcMax = 0
                    /\ wfcN = 0
                    /\ wfcI = 0
                    /\ wfcAttempts = 0
                    /\ wfcSlept = 0
                    /\ wfcResult = ""
                    /\ wfcCancel = NoCancel

\* ppCheck while the reboot check has not been made
NoCheck == [made |-> FALSE, err |-> FALSE, status |-> 0, out |-> <<>>]

PrepIdle == /\ ppPc = "idle"
            /\ ppSkip = FALSE
            /\ ppLog = <<>>
            /\ ppOK = {}
            /\ ppFailed = {}
            /\ ppCheck = NoCheck
            /\ ppResult = ""
            /\ ppLate = {}
            /\ ppCmdEnded = FALSE

\* plLogin while PushToECR has not run the login command
NoLogin == [made |-> FALSE, ok |-> FALSE, output |-> <<>>]

PipeIdle ==
    /\ plPc = "idle"
    /\ plFlags = [skipBuild |-> FALSE, skipPush |-> FALSE, ecr |-> <<>>]
    /\ plLog = <<>>
    /\ plFatal = ""
    /\ plErr = ""
    /\ plWarn = {}
    /\ plLogin = NoLogin
    /\ plCleanupRet = ""

ArgIdle ==
    /\ baPc = "idle"
    /\ baArgs = <<>>
    /\ baOrder = <<>>
    /\ baCmd = <<>>
    /\ baWords = <<>>

AmiIdle ==
    /\ amPc = "idle"
    /\ amArch = ""
    /\ amImages = {}
    /\ amCalls = <<>>
    /\ amSelected = 0
    /\ amErr = ""

WaitIdle ==
    /\ wrPc = "idle"
    /\ wrNode = "pending"
    /\ wrAddr = FALSE
    /\ wrPolls = 0
    /\ wrCtxDone = FALSE
    /\ wrResult = ""

\* the architectures of the two concurrent runs
Runs == {"x86_64", "arm64"}
NoKey == <<>>

ParIdle ==
    /\ cfgKeyPair = NoKey
    /\ bwPc = [r \in Runs |-> "idle"]
    /\ bwLaunchKey = [r \in Runs |-> NoKey]
    /\ bwKeyFile = [r \in Runs |-> NoKey]

TsIdle ==
    /\ tsPc = "idle"
    /\ tsKeep = FALSE
    /\ tsInstanceID = ""
    /\ tsNode = "none"
    /\ tsInfo = 0
    /\ tsFailed = ""
    /\ tsTermReq = 0
    /\ tsCtxDone = FALSE
    /\ tsHpc = "wait"
    /\ tsSigAt = ""
    /\ tsExited = ""

MoreIdle == WaitIdle /\ ParIdle /\ TsIdle

ToolIdle == PipeIdle /\ ArgIdle /\ AmiIdle /\ MoreIdle

Init == /\ skipCleanup \in BOOLEAN
        /\ skipBuild \in BOOLEAN
        /\ pushWanted \in BOOLEAN
        /\ MainIdle
        /\ KeyIdle
        /\ MatrixIdle
        /\ ClientIdle("noclient")
        /\ PrepIdle
        /\ ToolIdle

\* BuildWithSSH returning (id, err) into "instanceID, err = ..." of main,
\* followed by "if err != nil { log.Fatalf }"
BwsReturnErr(id, step) == /\ instanceID' = id
                          /\ bwsErr' = step
                          /\ Fatal("BuildWithSSH")

\* BuildWithSSH: sb.keyPairManager.GetOrCreateKeyPair
BwsKeyPair ==
    /\ MainRunning /\ pc = "keypair"
    /\ \E r \in Outcomes :
         IF r = "ok"
           THEN /\ pc' = "launch"
                /\ UNCHANGED <<instanceID, bwsErr, fatalErr>>
           ELSE BwsReturnErr(NoID, "GetOrCreateKeyPair")
    /\ UNCHANGED <<skipCleanup, skipBuild, pushWanted, sbInstanceID, sshClient,
                   inst, termRequests, waiterRuns, ctxDone, cancelAt, hpc, cl, clResult,
                   exited, logged>>

\* BuildWithSSH: sb.launchBuildInstance, sb.instanceID = instanceID
BwsLaunch ==
    /\ MainRunning /\ pc = "launch"
    /\ \E r \in Outcomes :
         IF r = "ok"
           THEN /\ pc' = "waitReady"
                /\ inst' = "pending"
                /\ sbInstanceID' = NodeID
                /\ UNCHANGED <<instanceID, bwsErr, fatalErr>>
           ELSE /\ BwsReturnErr(NoID, "launchBuildInstance")
                /\ UNCHANGED <<inst, sbInstanceID>>
    /\ UNCHANGED <<skipCleanup, skipBuild, pushWanted, sshClient, termRequests,
                   waiterRuns, ctxDone, cancelAt, hpc, cl, clResult, exited, logged>>

\* Provider side of a node that has not been asked to terminate: a failed wait
\* leaves it pending (timeout) or running (describe error, no public IP)
AliveStates == {"pending", "running"}

\* BuildWithSSH: sb.waitForInstanceReady
BwsWaitReady ==
    /\ MainRunning /\ pc = "waitReady"
    /\ \E r \in Outcomes :
         IF r = "ok"
           THEN /\ pc' = "newClient"
                /\ inst' = IF inst \in AliveStates THEN "running" ELSE inst
                /\ UNCHANGED <<instanceID, bwsErr, fatalErr>>
           ELSE /\ BwsReturnErr(sbInstanceID, "waitForInstanceReady")
                /\ \E s \in AliveStates :
                     inst' = IF inst \in AliveStates THEN s ELSE inst
    /\ UNCHANGED <<skipCleanup, skipBuild, pushWanted, sbInstanceID, sshClient,
                   termRequests, waiterRuns, ctxDone, cancelAt, hpc, cl, clResult, exited,
                   logged>>

\* BuildWithSSH: ssh.NewClient (reads and parses the private key file; no ctx)
BwsNewClient ==
    /\ MainRunning /\ pc = "newClient"
    /\ \E r \in {"ok", "fail"} :
         IF r = "ok"
           THEN /\ pc' = "waitConn"
                /\ sshClient' = "created"
                /\ UNCHANGED <<instanceID, bwsErr, fatalErr>>
           ELSE /\ BwsReturnErr(sbInstanceID, "NewClient")
                /\ UNCHANGED sshClient
    /\ UNCHANGED <<skipCleanup, skipBuild, pushWanted, sbInstanceID, inst,
                   termRequests, waiterRuns, ctxDone, cancelAt, hpc, cl, clResult, exited,
                   logged>>

\* BuildWithSSH: sb.sshClient.WaitForConnection(ctx, publicIP, 30)
BwsWaitConn ==
    /\ MainRunning /\ pc = "waitConn"
    /\ \E r \in Outcomes :
         IF r = "ok"
           THEN /\ pc' = "testConn"
                /\ sshClient' = "connected"
                /\ UNCHANGED <<instanceID, bwsErr, fatalErr>>
           ELSE /\ BwsReturnErr(sbInstanceID, "WaitForConnection")
                /\ UNCHANGED sshClient
    /\ UNCHANGED <<skipCleanup, skipBuild, pushWanted, sbInstanceID, inst,
                   termRequests, waiterRuns, ctxDone, cancelAt, hpc, cl, clResult, exited,
                   logged>>

\* BuildWithSSH: sb.sshClient.TestConnection, then "return instanceID, nil"
BwsTestConn ==
    /\ MainRunning /\ pc = "testConn"
    /\ \E r \in Outcomes :
         IF r = "ok"
           THEN /\ pc' = "prepare"
                /\ instanceID' = sbInstanceID
                /\ UNCHANGED <<bwsErr, fatalErr>>
           ELSE BwsReturnErr(sbInstanceID, "TestConnection")
    /\ UNCHANGED <<skipCleanup, skipBuild, pushWanted, sbInstanceID, sshClient,
                   inst, termRequests, waiterRuns, ctxDone, cancelAt, hpc, cl, clResult,
                   exited, logged>>

\* Everything of main's state except pc, fatalErr and logged
mainRest == <<skipCleanup, skipBuild, pushWanted, instanceID, sbInstanceID,
              sshClient, inst, termRequests, waiterRuns, ctxDone, cancelAt, hpc, cl,
              clResult, exited, bwsErr>>

\* "err = step(ctx); if err != nil { log.Fatalf(...) }" between two positions
FatalStep(from, step, to) ==
    /\ MainRunning /\ pc = from
    /\ \E r \in Outcomes :
         IF r = "ok"
           THEN pc' = to /\ UNCHANGED fatalErr
           ELSE Fatal(step)
    /\ UNCHANGED <<mainRest, logged>>

\* Step 2: sshBuilder.PrepareInstance
StepPrepare == FatalStep("prepare", "PrepareInstance", "testDocker")

\* Step 3: sshBuilder.TestDockerConnection, then "if !*skipBuild"
StepTestDocker ==
    FatalStep("testDocker", "TestDockerConnection",
              IF skipBuild THEN "final" ELSE "build")

\* Step 4: dockerBuilder.BuildContainer
StepBuild == FatalStep("build", "BuildContainer", "imageInfo")

\* dockerBuilder.GetImageInfo: an error is only a warning; then the
\* "if *ecrRepository != "" && !*skipPush" test
StepImageInfo ==
    /\ MainRunning /\ pc = "imageInfo"
    /\ \E r \in Outcomes :
         logged' = IF r = "ok" THEN logged
                   ELSE logged \cup {"Warning: Could not get image info"}
    /\ pc' = IF pushWanted THEN "push" ELSE "cleanupImages"
    /\ UNCHANGED <<mainRest, fatalErr>>

\* Step 5: dockerBuilder.PushToECR
StepPush == FatalStep("push", "PushToECR", "cleanupImages")

\* Step 6: dockerBuilder.CleanupImages always returns nil
StepCleanupImages ==
    /\ MainRunning /\ pc = "cleanupImages"
    /\ pc' = "final"
    /\ UNCHANGED <<mainRest, fatalErr, logged>>

\* Mutant: the closure forgets the -keep-instance flag
CleanupGuardIgnoresKeep(id, keep) == id # NoID

\* The guard of the cleanup closure
CleanupGuard(id, keep) == id # NoID /\ ~keep

\* "if *skipCleanup { ... } else { cleanup() }" at the end of main
FinalCleanupCalled(keep) == ~keep

StepFinal ==
    /\ MainRunning /\ pc = "final"
    /\ pc' = IF FinalCleanupCalled(skipCleanup) THEN "cleanup" ELSE "return"
    /\ UNCHANGED <<mainRest, fatalErr, logged>>

\* cleanup() has returned to its caller: main falls off the end of main(),
\* the handler goes on to os.Exit(1)
CleanupReturns(who) ==
    IF who = "main" THEN pc' = "return" /\ UNCHANGED hpc
                    ELSE hpc' = "exit" /\ UNCHANGED pc

InCleanup(who) == IF who = "main" THEN pc = "cleanup" ELSE hpc = "cleanup"

\* c.client.Close() when a connection exists
Close(c) == IF c = "connected" THEN "closed" ELSE c

\* The provider accepts TerminateInstances for the node
Terminating(s) == IF s \in AliveStates THEN "shutting-down" ELSE s

\* cleanup(): guard, then SSHBuilder.CleanupInstance up to the
\* TerminateInstances call, under a fresh 10-minute context
CleanupRequest(who) ==
    /\ MainRunning /\ InCleanup(who) /\ cl[who] = "idle"
    /\ IF ~CleanupGuard(instanceID, skipCleanup)
         THEN /\ cl' = [cl EXCEPT ![who] = "done"]
              /\ clResult' = [clResult EXCEPT ![who] = "skipped"]
              /\ CleanupReturns(who)
              /\ UNCHANGED <<sshClient, termRequests, inst, logged>>
         ELSE /\ sshClient' = Close(sshClient)
              /\ termRequests' = termRequests + 1
              /\ \E r \in {"ok", "fail"} :
                   IF r = "ok"
                     THEN /\ inst' = Terminating(inst)
                          /\ cl' = [cl EXCEPT ![who] = "waiting"]
                          /\ UNCHANGED <<clResult, logged, pc, hpc>>
                     ELSE /\ cl' = [cl EXCEPT ![who] = "done"]
                          /\ clResult' = [clResult EXCEPT
                                            ![who] = "terminating instance"]
                          /\ logged' = logged \cup {"Error cleaning up instance"}
                          /\ CleanupReturns(who)
                          /\ UNCHANGED inst
    /\ UNCHANGED <<skipCleanup, skipBuild, pushWanted, instanceID, sbInstanceID,
                   waiterRuns, ctxDone, cancelAt, exited, fatalErr, bwsErr>>

\* SSHBuilder.CleanupInstance: InstanceTerminatedWaiter.Wait (at most 5
\* minutes) and the return to cleanup()
CleanupWait(who) ==
    /\ MainRunning /\ InCleanup(who) /\ cl[who] = "waiting"
    /\ waiterRuns' = waiterRuns + 1
    /\ cl' = [cl EXCEPT ![who] = "done"]
    /\ \E r \in {"ok", "fail"} :
         IF r = "ok"
           THEN /\ inst' = "terminated"
                /\ clResult' = [clResult EXCEPT ![who] = "ok"]
                /\ UNCHANGED logged
           ELSE /\ clResult' = [clResult EXCEPT
                                  ![who] = "waiting for instance termination"]
                /\ logged' = logged \cup {"Error cleaning up instance"}
                /\ UNCHANGED inst
    /\ CleanupReturns(who)
    /\ UNCHANGED <<skipCleanup, skipBuild, pushWanted, instanceID, sbInstanceID,
                   sshClient, termRequests, ctxDone, cancelAt, exited, fatalErr, bwsErr>>

MainCleanupRequest == CleanupRequest("main")
MainCleanupWait == CleanupWait("main")
HandlerCleanupRequest == CleanupRequest("handler")
HandlerCleanupWait == CleanupWait("handler")

\* log.Fatalf's os.Exit(1): deferred calls do not run
MainFatal ==
    /\ MainRunning /\ pc = "fatal"
    /\ exited' = "exit1"
    /\ UNCHANGED <<skipCleanup, skipBuild, pushWanted, pc, instanceID,
                   sbInstanceID, sshClient, inst, termRequests, waiterRuns,
                   ctxDone, cancelAt, hpc, cl, clResult, fatalErr, bwsErr, logged>>

\* main returns: the process ends with status 0
MainReturn ==
    /\ MainRunning /\ pc = "return"
    /\ exited' = "exit0"
    /\ UNCHANGED <<skipCleanup, skipBuild, pushWanted, pc, instanceID,
                   sbInstanceID, sshClient, inst, termRequests, waiterRuns,
                   ctxDone, cancelAt, hpc, cl, clResult, fatalErr, bwsErr, logged>>

\* Interrupt handler goroutine: "<-sigChan", the message, cancel()
HandlerSignal ==
    /\ MainRunning /\ hpc = "wait"
    /\ hpc' = "cleanup"
    /\ ctxDone' = TRUE
    /\ cancelAt' = IF ctxDone THEN cancelAt ELSE pc
    /\ UNCHANGED <<skipCleanup, skipBuild, pushWanted, pc, instanceID,
                   sbInstanceID, sshClient, inst, termRequests, waiterRuns, cl,
                   clResult, exited, fatalErr, bwsErr, logged>>

\* Interrupt handler goroutine: os.Exit(1) after cleanup()
HandlerExit ==
    /\ MainRunning /\ hpc = "exit"
    /\ exited' = "exit1"
    /\ UNCHANGED <<skipCleanup, skipBuild, pushWanted, pc, instanceID,
                   sbInstanceID, sshClient, inst, termRequests, waiterRuns,
                   ctxDone, cancelAt, hpc, cl, clResult, fatalErr, bwsErr, logged>>

\* The 2-hour deadline of context.WithTimeout expires
DeadlineExpires ==
    /\ MainRunning /\ ~ctxDone
    /\ ctxDone' = TRUE
    /\ cancelAt' = pc
    /\ UNCHANGED <<skipCleanup, skipBuild, pushWanted, pc, instanceID,
                   sbInstanceID, sshClient, inst, termRequests, waiterRuns, hpc,
                   cl, clResult, exited, fatalErr, bwsErr, logged>>

Next ==
    \/ (BwsKeyPair /\ UNCHANGED <<keyVars, matrixVars, sessVars>>)
    \/ (BwsLaunch /\ UNCHANGED <<keyVars, matrixVars, sessVars>>)
    \/ (BwsWaitReady /\ UNCHANGED <<keyVars, matrixVars, sessVars>>)
    \/ (BwsNewClient /\ UNCHANGED <<keyVars, matrixVars, sessVars>>)
    \/ (BwsWaitConn /\ UNCHANGED <<keyVars, matrixVars, sessVars>>)
    \/ (BwsTestConn /\ UNCHANGED <<keyVars, matrixVars, sessVars>>)
    \/ (StepPrepare /\ UNCHANGED <<keyVars, matrixVars, sessVars>>)
    \/ (StepTestDocker /\ UNCHANGED <<keyVars, matrixVars, sessVars>>)
    \/ (StepBuild /\ UNCHANGED <<keyVars, matrixVars, sessVars>>)
    \/ (StepImageInfo /\ UNCHANGED <<keyVars, matrixVars, sessVars>>)
    \/ (StepPush /\ UNCHANGED <<keyVars, matrixVars, sessVars>>)
    \/ (StepCleanupImages /\ UNCHANGED <<keyVars, matrixVars, sessVars>>)
    \/ (StepFinal /\ UNCHANGED <<keyVars, matrixVars, sessVars>>)
    \/ (MainCleanupRequest /\ UNCHANGED <<keyVars, matrixVars, sessVars>>)
    \/ (MainCleanupWait /\ UNCHANGED <<keyVars, matrixVars, sessVars>>)
    \/ (HandlerCleanupRequest /\ UNCHANGED <<keyVars, matrixVars, sessVars>>)
    \/ (HandlerCleanupWait /\ UNCHANGED <<keyVars, matrixVars, sessVars>>)
    \/ (MainFatal /\ UNCHANGED <<keyVars, matrixVars, sessVars>>)
    \/ (MainReturn /\ UNCHANGED <<keyVars, matrixVars, sessVars>>)
    \/ (HandlerSignal /\ UNCHANGED <<keyVars, matrixVars, sessVars>>)
    \/ (HandlerExit /\ UNCHANGED <<keyVars, matrixVars, sessVars>>)
    \/ (DeadlineExpires /\ UNCHANGED <<keyVars, matrixVars, sessVars>>)

Spec == Init /\ [][Next]_vars

\* ------------------------------------------------------------------ keys

\* Errors GetOrCreateKeyPair returns
ErrCheck == "checking key pair existence"
ErrConflict == "key pair exists in AWS but no local private key found"
ErrCreate == "creating key pair"
ErrSave == "saving key pair to file"

\* Content of a file that os.WriteFile created or truncated but did not
\* finish writing: no key's private or public half
PartialFile == MaxKeys + 1

\* KeyPairExists: DescribeKeyPairs by name; InvalidKeyPair.NotFound means
\* (false, nil), any other error is returned
KeyPairExists(d, aws) ==
    IF d = "error" THEN "error"
    ELSE IF aws # 0 THEN "found" ELSE "notfound"

\* os.Stat(privateKeyPath) returned err == nil
StatOK(priv) == priv # 0

\* Mutant: a key pair is created whether or not one is registered
NeedsCreateAlways(lookup) == TRUE

\* "if exists { ... return }": the creation path is entered only when the
\* provider has no key pair of that name
NeedsCreate(lookup) == lookup # "found"

\* Mutant: the missing private key file is not noticed
ExistingKeyResultNoStat(statOK) == "ok"

\* The "if exists" branch: nil when the local private key file is there,
\* otherwise the conflict error
ExistingKeyResult(statOK) == IF statOK THEN "ok" ELSE ErrConflict

\* Mutant: a failed DeleteKeyPair replaces the save error
SaveErrorReturnDeleteWins(delOK) ==
    IF delOK THEN ErrSave ELSE "deleting key pair"

\* What is returned when SaveKeyPairToFile failed, after
\* kpm.DeleteKeyPair(ctx, keyName) whose result is dropped
SaveErrorReturn(delOK) == ErrSave

\* Mutant: only the result of the last write is looked at
SavedIgnoresPrivate(w1, w2) == w2 = "ok"

\* SaveKeyPairToFile returned nil: the private key file and then the public
\* key file were both written
Saved(w1, w2) == w1 = "ok" /\ w2 = "ok"

\* os.WriteFile outcomes: written, failed before the file was touched,
\* failed after it was created or truncated
WriteOutcomes == {"ok", "failUntouched", "failPartial"}

WriteFile(old, new, w) ==
    IF w = "ok" THEN new
    ELSE IF w = "failPartial" THEN PartialFile ELSE old

KeyReturn(result, lookup, acts, failed) ==
    kpLast' = [result |-> result, prev |-> kpLast.result, lookup |-> lookup,
               pre |-> [aws |-> awsKey, priv |-> privFile, pub |-> pubFile,
                        gen |-> keyGen],
               acts |-> acts, failed |-> failed]

\* KeyPairManager.GetOrCreateKeyPair(ctx, keyName, privateKeyPath), with the
\* outcome of each provider call and file write as input:
\*   d   DescribeKeyPairs    g  GenerateKeyPair     i  ImportKeyPair
\*   w1  write private key   w2 write public key    del DeleteKeyPair
GetOrCreateKeyPair(d, g, i, w1, w2, del) ==
    LET lookup == KeyPairExists(d, awsKey)
        newKey == keyGen + 1
        saved == Saved(w1, w2)
        wrote == IF w1 = "ok" THEN {"writePriv", "writePub"} ELSE {"writePriv"}
        wfail == IF w1 # "ok" THEN {"writePriv"}
                 ELSE IF w2 # "ok" THEN {"writePub"} ELSE {}
    IN
    IF lookup = "error"
      THEN /\ KeyReturn(ErrCheck, lookup, {}, {})
           /\ UNCHANGED <<awsKey, privFile, pubFile, keyGen>>
    ELSE IF ~NeedsCreate(lookup)
      THEN /\ KeyReturn(ExistingKeyResult(StatOK(privFile)), lookup, {}, {})
           /\ UNCHANGED <<awsKey, privFile, pubFile, keyGen>>
    ELSE IF ~g
      THEN /\ KeyReturn(ErrCreate, lookup, {"generate"}, {"generate"})
           /\ UNCHANGED <<awsKey, privFile, pubFile, keyGen>>
    ELSE IF ~(i /\ awsKey = 0)
      THEN /\ keyGen < MaxKeys
           /\ keyGen' = newKey
           /\ KeyReturn(ErrCreate, lookup, {"generate", "import"}, {"import"})
           /\ UNCHANGED <<awsKey, privFile, pubFile>>
    ELSE /\ keyGen < MaxKeys
         /\ keyGen' = newKey
         /\ privFile' = WriteFile(privFile, newKey, w1)
         /\ pubFile' = IF w1 = "ok" THEN WriteFile(pubFile, newKey, w2)
                       ELSE pubFile
         /\ IF saved
              THEN /\ awsKey' = newKey
                   /\ KeyReturn("ok", lookup,
                                {"generate", "import"} \cup wrote, {})
              ELSE /\ awsKey' = IF del THEN 0 ELSE newKey
                   /\ KeyReturn(SaveErrorReturn(del), lookup,
                                {"generate", "import", "delete"} \cup wrote,
                                wfail \cup (IF del THEN {} ELSE {"delete"}))

KeyCall ==
    \E d \in {"ok", "error"}, g \in BOOLEAN, i \in BOOLEAN,
       w1 \in WriteOutcomes, w2 \in WriteOutcomes, del \in BOOLEAN :
        GetOrCreateKeyPair(d, g, i, w1, w2, del)

\* privateKeyPath lies in os.TempDir(): the files can be removed between runs
LocalFilesLost ==
    /\ privFile # 0 \/ pubFile # 0
    /\ privFile' = 0
    /\ pubFile' = 0
    /\ kpLast' = NoCall
    /\ UNCHANGED <<awsKey, keyGen>>

InitKey == /\ skipCleanup = FALSE /\ skipBuild = FALSE /\ pushWanted = FALSE
           /\ MainIdle
           /\ KeyIdle
           /\ MatrixIdle
           /\ ClientIdle("noclient")
           /\ PrepIdle
           /\ ToolIdle

NextKey ==
    \/ (KeyCall /\ UNCHANGED <<mainVars, matrixVars, sessVars>>)
    \/ (LocalFilesLost /\ UNCHANGED <<mainVars, matrixVars, sessVars>>)

SpecKey == InitKey /\ [][NextKey]_vars

\* GetOrCreateKeyPair calls only: the local files are touched by nothing else
NextKeyCalls == KeyCall /\ UNCHANGED <<mainVars, matrixVars, sessVars>>

SpecKeyCalls == InitKey /\ [][NextKeyCalls]_vars

\* ------------------------------------------------------------------ matrix

Builds == 1..MaxBuilds

\* Results of an SDK call made with BuildMatrix's context
CallOutcomes == {"ok", "fail"}

\* Builder.executeBuild is a placeholder: it sleeps and returns nil
ExecuteBuildOutcomes == {"ok"}

\* The error BuildSingle returns for the step that failed
StepError(step) ==
    IF step = "launch" THEN "launching instance"
    ELSE IF step = "wait" THEN "waiting for instance"
    ELSE IF step = "build" THEN "executing build"
    ELSE ""

\* Mutant: the deferred closure overwrites the returned error
DeferredReturnMasks(err, termFailed) ==
    IF termFailed THEN "terminating instance" ELSE err

\* What BuildSingle returns once the deferred closure has run: the closure
\* only prints a warning, the returned error stays the failed step's
DeferredReturn(err, termFailed) == err

\* Builder.terminateInstance: the TerminateInstances call and its error,
\* returned as is
TerminateReturn(r) == IF r = "ok" THEN "ok" ELSE "error"

\* Mutant: the closure is deferred ahead of the launch
DeferInstalledAlways(step) == TRUE

\* The defer statement follows the error return of launchBuildInstance: the
\* return paths of the later steps run the closure, that of the launch does
\* not
DeferInstalled(step) == step # "launch"

\* Where BuildSingle goes when it leaves a step to return
ReturnVia(step) == IF DeferInstalled(step) THEN "defer" ELSE "return"

\* Mutant: the loops go on to the next combination after an error
MatrixStopsNever(err) == FALSE

\* "if err := b.BuildSingle(...); err != nil { return ... }" in
\* BuildAllForArch and the same test around BuildAllForArch in BuildMatrix
MatrixStops(err) == err # ""

\* BuildSingle: b.launchBuildInstance; on failure the defer is never installed
BsLaunch ==
    /\ bmResult = "running" /\ bsPc = "launch"
    /\ \E r \in CallOutcomes :
         IF r = "ok"
           THEN /\ bmInst' = [bmInst EXCEPT ![bmIdx] = "pending"]
                /\ bsPc' = "wait"
                /\ UNCHANGED <<bsFailed, bsErr>>
           ELSE /\ bsFailed' = "launch"
                /\ bsErr' = StepError("launch")
                /\ bsPc' = ReturnVia("launch")
                /\ UNCHANGED bmInst
    /\ UNCHANGED <<bmIdx, bmTermReq, bmTermRet, bmWarn, bmResult>>

\* BuildSingle: b.waitForInstance
BsWait ==
    /\ bmResult = "running" /\ bsPc = "wait"
    /\ \E r \in CallOutcomes :
         IF r = "ok"
           THEN /\ bmInst' = [bmInst EXCEPT ![bmIdx] = "running"]
                /\ bsPc' = "build"
                /\ UNCHANGED <<bsFailed, bsErr>>
           ELSE /\ bsFailed' = "wait"
                /\ bsErr' = StepError("wait")
                /\ bsPc' = ReturnVia("wait")
                /\ \E st \in AliveStates : bmInst' = [bmInst EXCEPT ![bmIdx] = st]
    /\ UNCHANGED <<bmIdx, bmTermReq, bmTermRet, bmWarn, bmResult>>

\* BuildSingle: b.executeBuild
BsBuild ==
    /\ bmResult = "running" /\ bsPc = "build"
    /\ \E r \in ExecuteBuildOutcomes :
         IF r = "ok"
           THEN UNCHANGED <<bsFailed, bsErr>>
           ELSE /\ bsFailed' = "build"
                /\ bsErr' = StepError("build")
    /\ bsPc' = ReturnVia("build")
    /\ UNCHANGED <<bmIdx, bmInst, bmTermReq, bmTermRet, bmWarn, bmResult>>

\* BuildSingle's deferred closure: b.terminateInstance and the warning
BsDeferTerminate ==
    /\ bmResult = "running" /\ bsPc = "defer"
    /\ bmTermReq' = [bmTermReq EXCEPT ![bmIdx] = @ + 1]
    /\ \E r \in CallOutcomes :
         /\ bmTermRet' = [bmTermRet EXCEPT ![bmIdx] = TerminateReturn(r)]
         /\ bmInst' = IF r = "ok"
                        THEN [bmInst EXCEPT ![bmIdx] = Terminating(@)]
                        ELSE bmInst
         /\ bmWarn' = IF TerminateReturn(r) = "ok" THEN bmWarn
                      ELSE bmWarn \cup {bmIdx}
         /\ bsErr' = DeferredReturn(bsErr, TerminateReturn(r) # "ok")
    /\ bsPc' = "return"
    /\ UNCHANGED <<bmIdx, bsFailed, bmResult>>

\* BuildSingle returns into the loops of BuildAllForArch / BuildMatrix: the
\* first error ends the matrix, otherwise the next combination is built
BmNext ==
    /\ bmResult = "running" /\ bsPc = "return"
    /\ IF MatrixStops(bsErr)
         THEN /\ bmResult' = "error"
              /\ UNCHANGED <<bmIdx, bsPc, bsFailed, bsErr>>
         ELSE IF bmIdx < MaxBuilds
           THEN /\ bmIdx' = bmIdx + 1
                /\ bsPc' = "launch"
                /\ bsFailed' = ""
                /\ UNCHANGED <<bsErr, bmResult>>
           ELSE /\ bmResult' = "ok"
                /\ UNCHANGED <<bmIdx, bsPc, bsFailed, bsErr>>
    /\ UNCHANGED <<bmInst, bmTermReq, bmTermRet, bmWarn>>

\* The provider finishes shutting a node down some time after it accepted
\* the TerminateInstances request
ProviderTerminates ==
    /\ \E n \in Builds :
         /\ bmInst[n] = "shutting-down"
         /\ bmInst' = [bmInst EXCEPT ![n] = "terminated"]
    /\ UNCHANGED <<bmIdx, bsPc, bsFailed, bsErr, bmTermReq, bmTermRet, bmWarn,
                   bmResult>>

NextMatrix ==
    \/ (BsLaunch /\ UNCHANGED <<mainVars, keyVars, sessVars>>)
    \/ (BsWait /\ UNCHANGED <<mainVars, keyVars, sessVars>>)
    \/ (BsBuild /\ UNCHANGED <<mainVars, keyVars, sessVars>>)
    \/ (BsDeferTerminate /\ UNCHANGED <<mainVars, keyVars, sessVars>>)
    \/ (BmNext /\ UNCHANGED <<mainVars, keyVars, sessVars>>)
    \/ (ProviderTerminates /\ UNCHANGED <<mainVars, keyVars, sessVars>>)

SpecMatrix == InitKey /\ [][NextMatrix]_vars

\* ------------------------------------------------------------------ client

\* Errors of the ssh.Client methods and of the SSHBuilder wrappers
ErrNotInit == "SSH client not initialized"
ErrNotConnected == "SSH client not connected"
ErrSession == "creating session"
ErrReadLocal == "reading local file"
ErrCommand == "command failed"
ErrCtx == "ctx.Err()"
ErrConnFailed == "failed to establish SSH connection"

\* seconds of "time.After(10 * time.Second)" between two Connect attempts
RetryDelay == 10

\* Mutant: one iteration too many
LoopContinuesInclusive(i, max) == i <= max

\* "for i := 0; i < maxRetries; i++"
LoopContinues(i, max) == i < max

\* c.Connect against a host that first accepts the n-th attempt of the call
ConnectOK(attempt, n) == attempt >= n

\* Mutant: a closed connection still opens sessions
NewSessionPossibleAfterClose(conn) == conn \in {"open", "closed"}

\* c.client.NewSession() can succeed only on a connection that is open
NewSessionPossible(conn) == conn = "open"

\* What session.Run(command) sends to the done channel
RunResults == {"ok", ErrCommand}

\* The cases of "select { case <-ctx.Done(): ... case err := <-done: ... }"
\* that are ready; the select blocks while there is none and takes any one
\* of them when there are several
SelectReady(cancelled, finished) ==
    (IF cancelled THEN {"ctx"} ELSE {}) \cup (IF finished THEN {"done"} ELSE {})

\* Mutant: the cancellation case returns without signalling the process
KillSentNever(branch) == FALSE

\* "case <-ctx.Done(): session.Signal(ssh.SIGKILL)"
KillSent(branch) == branch = "ctx"

\* No command call is in progress
NoRun == [op |-> "none", pre |-> "none", state |-> "idle", res |-> "none"]

\* Remote commands that were started and have not ended
InFlight == (IF cCall.state = "running" THEN 1 ELSE 0) + cOrphans

\* A call returns before session.Run was reached
CmdReturn(op, result, ran) ==
    cLast' = [op |-> op, pre |-> cConn, result |-> result, ran |-> ran,
              killed |-> FALSE, out |-> FALSE, pending |-> FALSE,
              ctxAt |-> cCtxDone]

\* Entry of ExecuteCommand, ExecuteCommandStream and UploadFile, behind the
\* SSHBuilder wrapper's "sb.sshClient == nil" test, up to
\* "go func() { done <- session.Run(command) }()":
\*   readOK  os.ReadFile(localPath) (UploadFile only)   sessOK  NewSession
SessionCall(op, readOK, sessOK) ==
    /\ ppPc = "idle"
    /\ wfcPc \in {"idle", "returned"}
    /\ cCall.state = "idle"
    /\ IF cConn = "noclient"
         THEN CmdReturn(op, ErrNotInit, FALSE) /\ UNCHANGED cCall
       ELSE IF cConn = "nil"
         THEN CmdReturn(op, ErrNotConnected, FALSE) /\ UNCHANGED cCall
       ELSE IF ~readOK
         THEN CmdReturn(op, ErrReadLocal, FALSE) /\ UNCHANGED cCall
       ELSE IF ~(NewSessionPossible(cConn) /\ sessOK)
         THEN CmdReturn(op, ErrSession, FALSE) /\ UNCHANGED cCall
       ELSE /\ cOrphans < MaxOrphans
            /\ cCall' = [op |-> op, pre |-> cConn, state |-> "running",
                         res |-> "none"]
            /\ UNCHANGED cLast
    /\ UNCHANGED <<cConn, cCtxDone, cOrphans, cShakes, wfcPc, wfcMax, wfcN,
                   wfcI, wfcAttempts, wfcSlept, wfcResult, wfcCancel>>

ClientExecuteCommand ==
    \E sessOK \in BOOLEAN : SessionCall("ExecuteCommand", TRUE, sessOK)

ClientExecuteCommandStream ==
    \E sessOK \in BOOLEAN : SessionCall("ExecuteCommandStream", TRUE, sessOK)

ClientUploadFile ==
    \E readOK \in BOOLEAN, sessOK \in BOOLEAN :
        SessionCall("UploadFile", readOK, sessOK)

\* The remote command of the call in progress ends: session.Run returns and
\* the goroutine sends its result to done
CmdFinishes ==
    /\ cCall.state = "running"
    /\ \E r \in RunResults :
         cCall' = [cCall EXCEPT !.state = "finished", !.res = r]
    /\ UNCHANGED <<cConn, cCtxDone, cLast, cOrphans, cShakes, wfcPc, wfcMax,
                   wfcN, wfcI, wfcAttempts, wfcSlept, wfcResult, wfcCancel>>

\* The select of the call in progress takes a ready case and the call
\* returns: on ctx.Done() the kill signal is sent and ctx.Err() returned
\* without waiting for the process to end; on done the result is returned
\* (ExecuteCommand returns the captured output with it)
CmdSelect ==
    /\ cCall.state \in {"running", "finished"}
    /\ \E branch \in SelectReady(cCtxDone, cCall.state = "finished") :
         /\ cLast' = [op |-> cCall.op, pre |-> cCall.pre,
                      result |-> IF branch = "ctx" THEN ErrCtx ELSE cCall.res,
                      ran |-> TRUE,
                      killed |-> KillSent(branch),
                      out |-> (branch = "done" /\ cCall.op = "ExecuteCommand"),
                      pending |-> cCall.state = "running",
                      ctxAt |-> cCtxDone]
         /\ cOrphans' = IF cCall.state = "running" THEN cOrphans + 1
                        ELSE cOrphans
    /\ cCall' = NoRun
    /\ UNCHANGED <<cConn, cCtxDone, cShakes, wfcPc, wfcMax, wfcN, wfcI,
                   wfcAttempts, wfcSlept, wfcResult, wfcCancel>>

\* A remote process whose call has returned ends (the kill signal arrived)
OrphanEnds ==
    /\ cOrphans > 0
    /\ cOrphans' = cOrphans - 1
    /\ UNCHANGED <<cConn, cCtxDone, cLast, cCall, cShakes, wfcPc, wfcMax,
                   wfcN, wfcI, wfcAttempts, wfcSlept, wfcResult, wfcCancel>>

\* ssh.NewClient, stored into sb.sshClient when it succeeds
ClientNew ==
    /\ ppPc = "idle"
    /\ cConn = "noclient"
    /\ \E r \in {"ok", "fail"} : cConn' = IF r = "ok" THEN "nil" ELSE cConn
    /\ cShakes' = 0
    /\ UNCHANGED <<cCtxDone, cLast, cCall, cOrphans, wfcPc, wfcMax, wfcN,
                   wfcI, wfcAttempts, wfcSlept, wfcResult, wfcCancel>>

\* Client.Close: closes the connection if there is one, c.client is not reset
ClientClose ==
    /\ ppPc = "idle"
    /\ wfcPc \in {"idle", "returned"}
    /\ cCall.state = "idle"
    /\ cConn # "noclient"
    /\ cConn' = IF cConn = "nil" THEN "nil" ELSE "closed"
    /\ UNCHANGED <<cCtxDone, cLast, cCall, cOrphans, cShakes, wfcPc, wfcMax,
                   wfcN, wfcI, wfcAttempts, wfcSlept, wfcResult, wfcCancel>>

\* The caller's context is cancelled or its deadline passes
CtxCancel ==
    /\ ~cCtxDone
    /\ cCtxDone' = TRUE
    /\ wfcCancel' = IF wfcPc \in {"loop", "delay"}
                      THEN [at |-> wfcPc, i |-> wfcI, attempts |-> wfcAttempts]
                      ELSE wfcCancel
    /\ UNCHANGED <<cConn, cLast, cCall, cOrphans, cShakes, wfcPc, wfcMax,
                   wfcN, wfcI, wfcAttempts, wfcSlept, wfcResult>>

\* Entry of WaitForConnection(ctx, host, max) against a host that first
\* accepts the n-th attempt
WfcBegin(max, n) ==
    /\ wfcPc' = "loop"
    /\ wfcMax' = max
    /\ wfcN' = n
    /\ wfcI' = 0
    /\ wfcAttempts' = 0
    /\ wfcSlept' = 0
    /\ wfcResult' = ""
    /\ wfcCancel' = IF cCtxDone THEN [at |-> "loop", i |-> 0, attempts |-> 0]
                                ELSE NoCancel

WfcReturn(result) ==
    /\ wfcPc' = "returned"
    /\ wfcResult' = result

\* A caller invokes WaitForConnection on an existing Client
ClientWaitForConnection ==
    /\ ppPc = "idle"
    /\ wfcPc \in {"idle", "returned"}
    /\ cCall.state = "idle"
    /\ cConn # "noclient"
    /\ cShakes < MaxShakes
    /\ \E max \in 0..MaxRetries, n \in 1..(MaxRetries + 1) : WfcBegin(max, n)
    /\ UNCHANGED <<cConn, cCtxDone, cLast, cCall, cOrphans, cShakes>>

\* One pass through the head of the loop: the loop condition, the
\* non-blocking ctx.Done() test, c.Connect (which assigns c.client when the
\* handshake succeeds) and "if err == nil { return nil }"
WfcAttempt ==
    /\ wfcPc = "loop"
    /\ IF ~LoopContinues(wfcI, wfcMax)
         THEN /\ WfcReturn(ErrConnFailed)
              /\ UNCHANGED <<cConn, cShakes, wfcAttempts>>
       ELSE IF cCtxDone
         THEN /\ WfcReturn(ErrCtx)
              /\ UNCHANGED <<cConn, cShakes, wfcAttempts>>
       ELSE /\ wfcAttempts' = wfcAttempts + 1
            /\ IF ConnectOK(wfcAttempts + 1, wfcN)
                 THEN /\ cConn' = "open"
                      /\ cShakes' = cShakes + 1
                      /\ WfcReturn("ok")
                 ELSE /\ wfcPc' = "delay"
                      /\ UNCHANGED <<cConn, cShakes, wfcResult>>
    /\ UNCHANGED <<cCtxDone, cLast, cCall, cOrphans, wfcMax, wfcN, wfcI,
                   wfcSlept, wfcCancel>>

\* The select after a failed attempt: ctx.Done() returns ctx.Err(), the
\* timer starts the next iteration; with both ready either may be taken
\* Mutant: the delay select has no ctx.Done() case
DelayBranchTimerOnly(cancelled) == "timer"

\* "select { case <-ctx.Done(): ...; case <-time.After(10 * time.Second): }":
\* the timer is created when the select is entered, so only ctx.Done() can
\* be ready then, and a blocked select is completed by whichever of the two
\* happens first; a cancellation after the timer fired is one at the loop
\* head
DelayBranch(cancelled) == IF cancelled THEN "ctx" ELSE "timer"

WfcDelay ==
    /\ wfcPc = "delay"
    /\ IF DelayBranch(cCtxDone) = "timer"
         THEN /\ wfcSlept' = wfcSlept + RetryDelay
              /\ wfcI' = wfcI + 1
              /\ wfcPc' = "loop"
              /\ UNCHANGED wfcResult
         ELSE /\ WfcReturn(ErrCtx)
              /\ UNCHANGED <<wfcSlept, wfcI>>
    /\ UNCHANGED <<cConn, cCtxDone, cLast, cCall, cOrphans, cShakes, wfcMax,
                   wfcN, wfcAttempts, wfcCancel>>

otherThanClient == <<mainVars, keyVars, matrixVars, prepVars, toolVars>>

NextClient ==
    \/ (ClientNew /\ UNCHANGED otherThanClient)
    \/ (ClientWaitForConnection /\ UNCHANGED otherThanClient)
    \/ (WfcAttempt /\ UNCHANGED otherThanClient)
    \/ (WfcDelay /\ UNCHANGED otherThanClient)
    \/ (ClientExecuteCommand /\ UNCHANGED otherThanClient)
    \/ (ClientExecuteCommandStream /\ UNCHANGED otherThanClient)
    \/ (ClientUploadFile /\ UNCHANGED otherThanClient)
    \/ (CmdFinishes /\ UNCHANGED otherThanClient)
    \/ (CmdSelect /\ UNCHANGED otherThanClient)
    \/ (OrphanEnds /\ UNCHANGED otherThanClient)
    \/ (ClientClose /\ UNCHANGED otherThanClient)
    \/ (CtxCancel /\ UNCHANGED otherThanClient)

SpecClient == InitKey /\ [][NextClient]_vars

\* ------------------------------------------------------------------ prepare

\* maxRetries of the WaitForConnection call in BuildWithSSH
InitialRetries == 30
\* maxRetries of the WaitForConnection call after a reboot
PostRebootRetries == 30

\* Errors PrepareInstance returns, by the step that failed
PrepError(step) ==
    IF step = "update" THEN "updating packages"
    ELSE IF step = "poll" THEN "waiting for instance after reboot"
    ELSE IF step = "reconnect" THEN "reconnecting SSH after reboot"
    ELSE IF step = "runtime" THEN "installing container runtime"
    ELSE IF step = "awscli" THEN "installing AWS CLI"
    ELSE IF step = "tools" THEN "installing build tools"
    ELSE ""

\* Mutant: a failed AWS CLI install does not end PrepareInstance
FailureReturnsNotAwsCli(step) ==
    step \in {"update", "poll", "reconnect", "runtime", "tools"}

\* Mutant: a failed reconnect does not end PrepareInstance
FailureReturnsNotReconnect(step) ==
    step \in {"update", "poll", "runtime", "awscli", "tools"}

\* The steps whose error makes PrepareInstance return; an error of the reboot
\* check or of "sudo reboot" only prints a warning
FailureReturns(step) ==
    step \in {"update", "poll", "reconnect", "runtime", "awscli", "tools"}

\* Mutant: the build tools are installed before the AWS CLI
NextStepSwapped(step) ==
    IF step = "update" THEN "check"
    ELSE IF step = "reboot" THEN "sleep"
    ELSE IF step = "sleep" THEN "poll"
    ELSE IF step = "poll" THEN "reconnect"
    ELSE IF step = "reconnect" THEN "runtime"
    ELSE IF step = "runtime" THEN "tools"
    ELSE IF step = "tools" THEN "awscli"
    ELSE "done"

\* The statement that follows a step in PrepareInstance (the branch after the
\* reboot check is CheckNext)
NextStep(step) ==
    IF step = "update" THEN "check"
    ELSE IF step = "reboot" THEN "sleep"
    ELSE IF step = "sleep" THEN "poll"
    ELSE IF step = "poll" THEN "reconnect"
    ELSE IF step = "reconnect" THEN "runtime"
    ELSE IF step = "runtime" THEN "awscli"
    ELSE IF step = "awscli" THEN "tools"
    ELSE "done"

\* Output of "dnf needs-restarting -r; echo $?": what dnf printed, followed by
\* the exit status of dnf as a decimal digit and a newline
TextChars == {"x", "0", "1"}
Texts == UNION {[1..n -> TextChars] : n \in 0..MaxText}
CheckStatuses == {0, 1}
Digit(status) == IF status = 0 THEN "0" ELSE "1"
CheckOutput(text, status) == text \o <<Digit(status), "\n">>

\* strings.Contains
Contains(s, sub) ==
    \E i \in 0..(Len(s) - Len(sub)) : SubSeq(s, i + 1, i + Len(sub)) = sub

\* Mutant: the output is searched although the check returned an error
RebootNeededIgnoresError(err, out) == Contains(out, <<"1">>)

\* "if err != nil { warning } else if strings.Contains(needsReboot, "1")"
RebootNeeded(err, out) == ~err /\ Contains(out, <<"1">>)

CheckNext(needed) == IF needed THEN "reboot" ELSE "runtime"

\* Results of a command or SDK call made with PrepareInstance's ctx
StepOutcomes == IF cCtxDone THEN {"fail"} ELSE {"ok", "fail"}

\* The steps that run a command on the node through ExecuteCommand or
\* ExecuteCommandStream
CommandSteps == {"update", "check", "reboot", "runtime", "awscli", "tools"}

\* ExecuteCommand does not look at ctx before "go func() { done <-
\* session.Run(command) }()": with ctx done the select returns at once and
\* the deferred session.Close() races with the goroutine, so the command may
\* or may not have been started on the node
LateStarts(step) ==
    IF cCtxDone /\ step \in CommandSteps THEN {{}, {step}} ELSE {{}}

PpStart(step) ==
    /\ ppLog' = Append(ppLog, step)
    /\ \E late \in LateStarts(step) : ppLate' = ppLate \cup late

PpGoto(next) ==
    IF next = "done"
      THEN /\ ppPc' = "returned"
           /\ ppResult' = "ok"
      ELSE /\ ppPc' = next
           /\ UNCHANGED ppResult

\* A step returned r: "if err != nil { return fmt.Errorf(...) }" where the
\* code has it, the next statement otherwise
PpFinish(step, r) ==
    IF r = "ok"
      THEN /\ ppOK' = ppOK \cup {step}
           /\ UNCHANGED ppFailed
           /\ PpGoto(NextStep(step))
      ELSE /\ ppFailed' = ppFailed \cup {step}
           /\ UNCHANGED ppOK
           /\ IF FailureReturns(step)
                THEN /\ ppPc' = "returned"
                     /\ ppResult' = PrepError(step)
                ELSE PpGoto(NextStep(step))

\* A step that is one command or call
PpStep(step, outcomes) ==
    /\ ppPc = step
    /\ PpStart(step)
    /\ \E r \in outcomes : PpFinish(step, r)
    /\ UNCHANGED <<ppSkip, ppCheck, ppCmdEnded>>

\* PrepareInstance(ctx, skipUpdate) is called on a connected SSHBuilder
PpCall ==
    /\ ppPc = "idle"
    /\ \E skip \in BOOLEAN :
         /\ ppSkip' = skip
         /\ ppPc' = IF skip THEN "runtime" ELSE "update"
    /\ UNCHANGED <<ppLog, ppOK, ppFailed, ppCheck, ppResult, ppLate, ppCmdEnded>>

\* "sudo dnf clean all && sudo dnf update -y --allowerasing"
PpUpdate == PpStep("update", StepOutcomes)

\* "dnf needs-restarting -r; echo $?" and the branch on its result
PpCheck ==
    /\ ppPc = "check"
    /\ PpStart("check")
    /\ \E r \in StepOutcomes, text \in Texts, st \in CheckStatuses :
         LET err == r # "ok"
             out == CheckOutput(text, st)
         IN /\ ppCheck' = [made |-> TRUE, err |-> err, status |-> st,
                           out |-> out]
            /\ IF err THEN /\ ppFailed' = ppFailed \cup {"check"}
                           /\ UNCHANGED ppOK
                      ELSE /\ ppOK' = ppOK \cup {"check"}
                           /\ UNCHANGED ppFailed
            /\ ppPc' = CheckNext(RebootNeeded(err, out))
    /\ UNCHANGED <<ppSkip, ppResult, ppCmdEnded>>

\* sb.ExecuteCommand(ctx, "sudo reboot") is entered: the command is sent
PpReboot ==
    /\ ppPc = "reboot"
    /\ PpStart("reboot")
    /\ ppPc' = "rebooting"
    /\ ppCmdEnded' = FALSE
    /\ UNCHANGED <<ppSkip, ppOK, ppFailed, ppCheck, ppResult>>

\* session.Run returns: the command exited or the connection dropped
PpRebootEnds ==
    /\ ppPc = "rebooting"
    /\ ~ppCmdEnded
    /\ ppCmdEnded' = TRUE
    /\ UNCHANGED <<ppPc, ppSkip, ppLog, ppOK, ppFailed, ppCheck, ppResult,
                   ppLate>>

\* what ExecuteCommand returns from a branch of its select
RebootResults(branch) == IF branch = "ctx" THEN {"fail"} ELSE {"ok", "fail"}

\* ExecuteCommand returns from "select { case <-ctx.Done(): ...; case err :=
\* <-done: ... }"; an error only prints a warning
PpRebootReturn ==
    /\ ppPc = "rebooting"
    /\ \E branch \in SelectReady(cCtxDone, ppCmdEnded) :
         \E r \in RebootResults(branch) : PpFinish("reboot", r)
    /\ UNCHANGED <<ppSkip, ppLog, ppCheck, ppLate, ppCmdEnded>>

\* time.Sleep(30 * time.Second)
PpSleep == PpStep("sleep", {"ok"})

\* sb.waitForInstanceReady(ctx, sb.instanceID)
PpPoll == PpStep("poll", StepOutcomes)

\* sb.sshClient.WaitForConnection(ctx, publicIP, 30) is entered
PpReconnect ==
    /\ ppPc = "reconnect"
    /\ PpStart("reconnect")
    /\ ppPc' = "reconnecting"
    /\ \E n \in 1..(PostRebootRetries + 1) : WfcBegin(PostRebootRetries, n)
    /\ UNCHANGED <<ppSkip, ppOK, ppFailed, ppCheck, ppResult, ppCmdEnded>>
    /\ UNCHANGED <<cConn, cCtxDone, cLast, cCall, cOrphans, cShakes>>

\* ... and has returned
PpReconnected ==
    /\ ppPc = "reconnecting"
    /\ wfcPc = "returned"
    /\ PpFinish("reconnect", IF wfcResult = "ok" THEN "ok" ELSE "fail")
    /\ UNCHANGED <<ppSkip, ppLog, ppCheck, ppLate, ppCmdEnded>>
    /\ UNCHANGED clientVars

\* "sudo dnf install -y podman git unzip && ..."
PpRuntime == PpStep("runtime", StepOutcomes)

\* the AWS CLI 2.x download and install
PpAwsCli == PpStep("awscli", StepOutcomes)

\* "sudo dnf install -y make gcc gcc-gfortran"
PpTools == PpStep("tools", StepOutcomes)

otherThanSess == <<mainVars, keyVars, matrixVars, toolVars>>

\* PrepareInstance runs after BuildWithSSH returned nil: the client is
\* connected
InitPrepare == /\ skipCleanup = FALSE /\ skipBuild = FALSE /\ pushWanted = FALSE
               /\ MainIdle
               /\ KeyIdle
               /\ MatrixIdle
               /\ ClientIdle("open")
               /\ PrepIdle
               /\ ToolIdle

NextPrepare ==
    \/ (PpCall /\ UNCHANGED <<otherThanSess, clientVars>>)
    \/ (PpUpdate /\ UNCHANGED <<otherThanSess, clientVars>>)
    \/ (PpCheck /\ UNCHANGED <<otherThanSess, clientVars>>)
    \/ (PpReboot /\ UNCHANGED <<otherThanSess, clientVars>>)
    \/ (PpRebootEnds /\ UNCHANGED <<otherThanSess, clientVars>>)
    \/ (PpRebootReturn /\ UNCHANGED <<otherThanSess, clientVars>>)
    \/ (PpSleep /\ UNCHANGED <<otherThanSess, clientVars>>)
    \/ (PpPoll /\ UNCHANGED <<otherThanSess, clientVars>>)
    \/ (PpReconnect /\ UNCHANGED otherThanSess)
    \/ (WfcAttempt /\ UNCHANGED <<otherThanSess, prepVars>>)
    \/ (WfcDelay /\ UNCHANGED <<otherThanSess, prepVars>>)
    \/ (PpReconnected /\ UNCHANGED otherThanSess)
    \/ (PpRuntime /\ UNCHANGED <<otherThanSess, clientVars>>)
    \/ (PpAwsCli /\ UNCHANGED <<otherThanSess, clientVars>>)
    \/ (PpTools /\ UNCHANGED <<otherThanSess, clientVars>>)
    \/ (CtxCancel /\ UNCHANGED <<otherThanSess, prepVars>>)

SpecPrepare == InitPrepare /\ [][NextPrepare]_vars

\* ---------------------------------------------------------------- pipeline

\* One remote command issued through db.sshClient and whether it succeeded
Run(cmd, ok) == [cmd |-> cmd, ok |-> ok]

\* Mutant: the image is tagged before it is built
PlAfterTagFirst(stage) ==
    CASE stage = "clone" -> "prepare"
      [] stage = "prepare" -> "tag"
      [] stage = "tag" -> "build"
      [] stage = "build" -> "info"

\* The stage that follows a stage that succeeded, in BuildContainer and then
\* in main
PlAfter(stage) ==
    CASE stage = "clone" -> "prepare"
      [] stage = "prepare" -> "build"
      [] stage = "build" -> "tag"
      [] stage = "tag" -> "info"

\* "if *ecrRepository != "" && !*skipPush"
PushRequested(flags) == flags.ecr # <<>> /\ ~flags.skipPush

\* strings.Split(s, sep) over a string given as a sequence of tokens
RECURSIVE Split(_, _)
Split(s, sep) ==
    IF \A i \in 1..Len(s) : s[i] # sep
      THEN <<s>>
      ELSE LET i == CHOOSE k \in 1..Len(s) :
                        s[k] = sep /\ \A j \in 1..(k - 1) : s[j] # sep
           IN  <<SubSeq(s, 1, i - 1)>> \o Split(SubSeq(s, i + 1, Len(s)), sep)

\* the fewest dot-separated fields loginToECR accepts
MinUrlParts == 4

\* "parts := strings.Split(ecrRepository, "."); if len(parts) < 4 {error}"
UrlAccepted(url) == Len(Split(url, ".")) >= MinUrlParts

\* "<account>.dkr.ecr.<region>.amazonaws.com/<repo>"
EcrFormat(url) ==
    LET host == Split(url, "/")[1]
        parts == Split(host, ".")
    IN  /\ Len(Split(url, "/")) = 2
        /\ Len(parts) = 6
        /\ \A i \in 1..6 : Len(parts[i]) = 1
        /\ <<parts[2][1], parts[3][1], parts[5][1], parts[6][1]>> =
               <<"dkr", "ecr", "amazonaws", "com">>

\* Mutant: a login command that exits successfully counts as logged in
LoginSucceededAlways(output) == TRUE

\* "strings.Contains(output, "Login Succeeded")"
LoginSucceeded(output) == Contains(output, <<"Login", " ", "Succeeded">>)

\* Mutant: both push failures are reported as the main tag's
PushErrorMainOnly(tag) == "pushing main image failed"

\* The error PushToECR returns when the push of a tag fails
PushError(tag) ==
    IF tag = "push" THEN "pushing main image failed"
    ELSE "pushing arch-specific image failed"

\* Mutant: a failed removal makes CleanupImages fail
CleanupImagesEscalates(failed) == IF failed = {} THEN "nil" ELSE "cleanup failed"

\* CleanupImages ends in "return nil" whichever of its commands failed
CleanupImagesReturns(failed) == "nil"

\* Values of the -ecr flag
EcrUrls ==
    { <<>>,
      <<"repo">>,
      <<"registry", ".", "example", ".", "com", "/", "repo">>,
      <<"registry", ".", "example", ".", "co", ".", "uk", "/", "repo">>,
      <<"123", ".", "dkr", ".", "ecr", ".", "us-west-2", ".", "amazonaws",
        ".", "com", "/", "repo">> }

\* What the login command can print
LoginOutputs ==
    { <<>>,
      <<"Login", " ", "Succeeded", "!">>,
      <<"Error", ":", " ", "Login", " ", "failed">>,
      <<"Succeeded", " ", "Login">> }

\* log.Fatalf in main: the process exits, nothing else runs
PlFatal(msg, err) ==
    /\ plPc' = "fatal"
    /\ plFatal' = msg
    /\ plErr' = err

PlGoto(stage) ==
    /\ plPc' = stage
    /\ UNCHANGED <<plFatal, plErr>>

\* cloneRepository: "rm -rf ~/source" (its error is ignored), then git clone
PlCloneRepository ==
    /\ plPc = "clone"
    /\ \E okRm \in BOOLEAN, okClone \in BOOLEAN :
         /\ plLog' = plLog \o <<Run("rm", okRm), Run("clone", okClone)>>
         /\ IF okClone THEN PlGoto(PlAfter("clone"))
            ELSE PlFatal("Docker build failed", "cloning repository")
    /\ UNCHANGED <<plFlags, plWarn, plCleanupRet>>

\* prepareBuildContext: "test -f <dir>/Dockerfile", then the listing of the
\* build context, which is only run when the file exists and whose error is
\* a warning
PlPrepareBuildContext ==
    /\ plPc = "prepare"
    /\ \E okTest \in BOOLEAN, okInfo \in BOOLEAN :
         IF okTest
           THEN /\ plLog' = plLog \o <<Run("test", TRUE), Run("context", okInfo)>>
                /\ plWarn' = IF okInfo THEN plWarn ELSE plWarn \cup {"context"}
                /\ PlGoto(PlAfter("prepare"))
           ELSE /\ plLog' = Append(plLog, Run("test", FALSE))
                /\ PlFatal("Docker build failed", "preparing build context")
                /\ UNCHANGED plWarn
    /\ UNCHANGED <<plFlags, plCleanupRet>>

\* buildDockerImage: the podman build command, streamed
PlBuildDockerImage ==
    /\ plPc = "build"
    /\ \E ok \in BOOLEAN :
         /\ plLog' = Append(plLog, Run("build", ok))
         /\ IF ok THEN PlGoto(PlAfter("build"))
            ELSE PlFatal("Docker build failed", "building Docker image")
    /\ UNCHANGED <<plFlags, plWarn, plCleanupRet>>

\* tagImage: "podman tag" for the architecture tag, then the image listing,
\* whose error is a warning
PlTagImage ==
    /\ plPc = "tag"
    /\ \E okTag \in BOOLEAN, okList \in BOOLEAN :
         IF okTag
           THEN /\ plLog' = plLog \o <<Run("tag", TRUE), Run("list", okList)>>
                /\ plWarn' = IF okList THEN plWarn ELSE plWarn \cup {"list"}
                /\ PlGoto(PlAfter("tag"))
           ELSE /\ plLog' = Append(plLog, Run("tag", FALSE))
                /\ PlFatal("Docker build failed", "tagging image")
                /\ UNCHANGED plWarn
    /\ UNCHANGED <<plFlags, plCleanupRet>>

\* GetImageInfo in main: an error is a warning; then the push test
PlGetImageInfo ==
    /\ plPc = "info"
    /\ \E ok \in BOOLEAN :
         /\ plLog' = Append(plLog, Run("imageinfo", ok))
         /\ plWarn' = IF ok THEN plWarn ELSE plWarn \cup {"imageinfo"}
    /\ PlGoto(IF PushRequested(plFlags) THEN "push" ELSE "cleanup")
    /\ UNCHANGED <<plFlags, plCleanupRet>>

\* The commands PushToECR runs and the error it returns ("nil" for none):
\*   loginOK, output  result of the login command
\*   t1, t2           the two "podman tag" commands
\*   p1, p2           the two "podman push" commands
PushToECR(url, loginOK, output, t1, t2, p1, p2) ==
    IF ~UrlAccepted(url)
      THEN [cmds |-> <<>>, err |-> "invalid ECR repository format"]
    ELSE IF ~loginOK
      THEN [cmds |-> <<Run("login", FALSE)>>,
            err |-> "ECR login command failed"]
    ELSE IF ~LoginSucceeded(output)
      THEN [cmds |-> <<Run("login", TRUE)>>,
            err |-> "ECR login did not succeed"]
    ELSE IF ~t1
      THEN [cmds |-> <<Run("login", TRUE), Run("ecrtag", FALSE)>>,
            err |-> "tagging for ECR failed"]
    ELSE IF ~t2
      THEN [cmds |-> <<Run("login", TRUE), Run("ecrtag", TRUE),
                       Run("ecrtagarch", FALSE)>>,
            err |-> "tagging arch-specific image for ECR failed"]
    ELSE IF ~p1
      THEN [cmds |-> <<Run("login", TRUE), Run("ecrtag", TRUE),
                       Run("ecrtagarch", TRUE), Run("push", FALSE)>>,
            err |-> PushError("push")]
    ELSE IF ~p2
      THEN [cmds |-> <<Run("login", TRUE), Run("ecrtag", TRUE),
                       Run("ecrtagarch", TRUE), Run("push", TRUE),
                       Run("pusharch", FALSE)>>,
            err |-> PushError("pusharch")]
    ELSE [cmds |-> <<Run("login", TRUE), Run("ecrtag", TRUE),
                     Run("ecrtagarch", TRUE), Run("push", TRUE),
                     Run("pusharch", TRUE)>>,
          err |-> "nil"]

\* Step 5 of main: PushToECR, log.Fatalf on its error
PlPushToECR ==
    /\ plPc = "push"
    /\ \E loginOK \in BOOLEAN, output \in LoginOutputs, t1 \in BOOLEAN,
          t2 \in BOOLEAN, p1 \in BOOLEAN, p2 \in BOOLEAN :
         LET r == PushToECR(plFlags.ecr, loginOK, output, t1, t2, p1, p2)
         IN  /\ plLog' = plLog \o r.cmds
             /\ plLogin' = [made |-> r.cmds # <<>>, ok |-> loginOK,
                            output |-> IF loginOK THEN output ELSE <<>>]
             /\ IF r.err = "nil" THEN PlGoto("cleanup")
                ELSE PlFatal("ECR push failed", r.err)
    /\ UNCHANGED <<plFlags, plWarn, plCleanupRet>>

\* Step 6 of main: CleanupImages removes both local tags and prunes the
\* build cache, each error a warning; main only logs what it returns
PlCleanupImages ==
    /\ plPc = "cleanup"
    /\ \E ok1 \in BOOLEAN, ok2 \in BOOLEAN, ok3 \in BOOLEAN :
         LET failed == (IF ok1 THEN {} ELSE {"rmi1"}) \cup
                       (IF ok2 THEN {} ELSE {"rmi2"}) \cup
                       (IF ok3 THEN {} ELSE {"prune"})
         IN  /\ plLog' = plLog \o
                   <<Run("rmi1", ok1), Run("rmi2", ok2), Run("prune", ok3)>>
             /\ plCleanupRet' = CleanupImagesReturns(failed)
             /\ plWarn' = plWarn \cup failed \cup
                   (IF CleanupImagesReturns(failed) = "nil" THEN {}
                    ELSE {"Cleanup failed"})
    /\ PlGoto("done")
    /\ UNCHANGED plFlags

InitPipeline ==
    /\ skipCleanup = FALSE /\ skipBuild = FALSE /\ pushWanted = FALSE
    /\ MainIdle /\ KeyIdle /\ MatrixIdle /\ ClientIdle("open") /\ PrepIdle
    /\ ArgIdle /\ AmiIdle /\ MoreIdle
    /\ plFlags \in [skipBuild : BOOLEAN, skipPush : BOOLEAN, ecr : EcrUrls]
    /\ plPc = IF plFlags.skipBuild THEN "done" ELSE "clone"
    /\ plLog = <<>>
    /\ plFatal = ""
    /\ plErr = ""
    /\ plWarn = {}
    /\ plLogin = NoLogin
    /\ plCleanupRet = ""

otherThanPipe == <<mainVars, keyVars, matrixVars, clientVars, prepVars,
                   argVars, amiVars, moreVars>>

NextPipeline ==
    \/ (PlCloneRepository /\ UNCHANGED plLogin /\ UNCHANGED otherThanPipe)
    \/ (PlPrepareBuildContext /\ UNCHANGED plLogin /\ UNCHANGED otherThanPipe)
    \/ (PlBuildDockerImage /\ UNCHANGED plLogin /\ UNCHANGED otherThanPipe)
    \/ (PlTagImage /\ UNCHANGED plLogin /\ UNCHANGED otherThanPipe)
    \/ (PlGetImageInfo /\ UNCHANGED plLogin /\ UNCHANGED otherThanPipe)
    \/ (PlPushToECR /\ UNCHANGED otherThanPipe)
    \/ (PlCleanupImages /\ UNCHANGED plLogin /\ UNCHANGED otherThanPipe)

SpecPipeline == InitPipeline /\ [][NextPipeline]_vars

\* --------------------------------------------------------------- build args

\* longest build-argument value
MaxArgLen == 2

\* The characters of build-argument values: a plain character and the
\* shell-sensitive ones
ArgChars == {"a", " ", "'", "\"", "\\", "$"}

\* Keys of config.BuildArgs
ArgKeys == {"K1", "K2"}

ArgValues == UNION {[1..n -> ArgChars] : n \in 0..MaxArgLen}

\* All orders in which "range config.BuildArgs" can visit the keys
Orders(keys) ==
    {o \in [1..Cardinality(keys) -> keys] :
        \A i \in DOMAIN o, j \in DOMAIN o : o[i] = o[j] => i = j}

\* strings.ReplaceAll(value, "'", `'"'"'`)
RECURSIVE Escape(_)
Escape(value) ==
    IF value = <<>> THEN <<>>
    ELSE (IF Head(value) = "'" THEN <<"'", "\"", "'", "\"", "'">>
          ELSE <<Head(value)>>) \o Escape(Tail(value))

\* Mutant: the value is put between the quotes as it is
BuildArgTokenUnescaped(key, value) ==
    <<" ", "--build-arg", " ", key, "=", "'">> \o value \o <<"'">>

\* fmt.Sprintf(" --build-arg %s='%s'", key, <escaped value>)
BuildArgToken(key, value) ==
    <<" ", "--build-arg", " ", key, "=", "'">> \o Escape(value) \o <<"'">>

RECURSIVE BuildArgTokens(_, _)
BuildArgTokens(args, order) ==
    IF order = <<>> THEN <<>>
    ELSE BuildArgToken(Head(order), args[Head(order)])
             \o BuildArgTokens(args, Tail(order))

\* The command string of buildDockerImage, visiting the keys in "order"
BuildCommand(args, order) ==
    <<"cd", " ", "dir", " ", "&&", " ", "podman", " ", "build">>
        \o BuildArgTokens(args, order)
        \o <<" ", "-t", " ", "img", " ", ".">>

\* What the shell makes of a "$" outside single quotes
Expansion == "<expansion>"

\* What the shell reports for a quote that is never closed
SyntaxError == << <<"<syntax error>">> >>

\* The shell's state before it has read anything: mode is "plain", "single"
\* (inside '...'), "double" (inside "..."), "esc" (after a backslash) or
\* "desc" (after a backslash inside "..."); cur is the word being built,
\* inWord tells that one is, words are the words finished so far
ShellStart == [mode |-> "plain", cur |-> <<>>, inWord |-> FALSE, words |-> <<>>]

\* The character c is added to the current word
ShellAdd(st, c, mode) ==
    [st EXCEPT !.mode = mode, !.cur = Append(st.cur, c), !.inWord = TRUE]

\* Token recognition and quote removal of the POSIX shell for one character
ShellRead(st, c) ==
    CASE st.mode = "single" ->
           IF c = "'" THEN [st EXCEPT !.mode = "plain"]
           ELSE ShellAdd(st, c, "single")
      [] st.mode = "double" ->
           IF c = "\"" THEN [st EXCEPT !.mode = "plain"]
           ELSE IF c = "$" THEN ShellAdd(st, Expansion, "double")
           ELSE IF c = "\\" THEN [st EXCEPT !.mode = "desc"]
           ELSE ShellAdd(st, c, "double")
      [] st.mode = "desc" ->
           IF c \in {"$", "\"", "\\"} THEN ShellAdd(st, c, "double")
           ELSE ShellAdd(ShellAdd(st, "\\", "double"), c, "double")
      [] st.mode = "esc" -> ShellAdd(st, c, "plain")
      [] st.mode = "plain" ->
           IF c = " "
             THEN [st EXCEPT !.cur = <<>>, !.inWord = FALSE,
                             !.words = IF st.inWord THEN Append(@, st.cur)
                                       ELSE @]
           ELSE IF c = "'" THEN [st EXCEPT !.mode = "single", !.inWord = TRUE]
           ELSE IF c = "\"" THEN [st EXCEPT !.mode = "double", !.inWord = TRUE]
           ELSE IF c = "$" THEN ShellAdd(st, Expansion, "plain")
           ELSE IF c = "\\" THEN [st EXCEPT !.mode = "esc"]
           ELSE ShellAdd(st, c, "plain")

ShellModes == {"plain", "single", "double", "esc", "desc"}

\* The shell reads the characters lo..hi of s, one after the other from the
\* left: the first half of them, then from the state reached the second
RECURSIVE ShellReadAll(_, _, _, _)
ShellReadAll(s, lo, hi, st) ==
    IF lo > hi THEN st
    ELSE IF lo = hi THEN ShellRead(st, s[lo])
    ELSE LET mid == (lo + hi) \div 2
             left == ShellReadAll(s, lo, mid, st)
         IN  IF left.mode \in ShellModes
               THEN ShellReadAll(s, mid + 1, hi, left)
               ELSE left

\* The words the shell splits the command line s into
ShellWords(s) ==
    LET st == ShellReadAll(s, 1, Len(s), ShellStart)
    IN  IF st.mode \in {"single", "double", "desc"} THEN SyntaxError
        ELSE IF st.inWord THEN Append(st.words, st.cur)
        ELSE st.words

\* buildDockerImage builds the command, its range loop visiting the keys in
\* an order of the runtime's choosing
BaBuildCommand ==
    /\ baPc = "config"
    /\ \E order \in Orders(DOMAIN baArgs) :
         /\ baOrder' = order
         /\ baCmd' = BuildCommand(baArgs, order)
    /\ baPc' = "built"
    /\ UNCHANGED <<baArgs, baWords>>

\* The remote shell splits the command it was sent into words
BaShellParses ==
    /\ baPc = "built"
    /\ baWords' = ShellWords(baCmd)
    /\ baPc' = "parsed"
    /\ UNCHANGED <<baArgs, baOrder, baCmd>>

InitArgs ==
    /\ skipCleanup = FALSE /\ skipBuild = FALSE /\ pushWanted = FALSE
    /\ MainIdle /\ KeyIdle /\ MatrixIdle /\ ClientIdle("open") /\ PrepIdle
    /\ PipeIdle /\ AmiIdle /\ MoreIdle
    /\ baPc = "config"
    /\ \E keys \in SUBSET ArgKeys : baArgs \in [keys -> ArgValues]
    /\ baOrder = <<>>
    /\ baCmd = <<>>
    /\ baWords = <<>>

otherThanArgs == <<mainVars, keyVars, matrixVars, clientVars, prepVars,
                   pipeVars, amiVars, moreVars>>

NextArgs ==
    \/ (BaBuildCommand /\ UNCHANGED otherThanArgs)
    \/ (BaShellParses /\ UNCHANGED otherThanArgs)

SpecArgs == InitArgs /\ [][NextArgs]_vars

\* ------------------------------------------------------------------- launch

\* number of images DescribeImages can return
MaxImages == 2
\* largest digit of a CreationDate
MaxDigit == 2
\* CreationDate is a fixed-width timestamp string ("2006-01-02T15:04:05.000Z")
DateWidth == 2

Dates == [1..DateWidth -> 0..MaxDigit]

\* The values of the arch argument
Archs == {"x86_64", "arm64", "riscv64"}

\* "switch arch { case "x86_64": ... case "arm64": ... default: error }"
ArchSupported(arch) == arch \in {"x86_64", "arm64"}

\* Go's ">" on strings: comparison byte by byte from the left, a proper
\* prefix being the smaller
RECURSIVE StrGreater(_, _)
StrGreater(a, b) ==
    IF a = <<>> THEN FALSE
    ELSE IF b = <<>> THEN TRUE
    ELSE IF Head(a) # Head(b) THEN Head(a) > Head(b)
    ELSE StrGreater(Tail(a), Tail(b))

\* Mutant: ascending comparison
LessAscending(x, y) == StrGreater(y.date, x.date)

\* The less function handed to sort.Slice
Less(x, y) == StrGreater(x.date, y.date)

\* The orders sort.Slice can leave the images in: every arrangement in which
\* no image stands before one that is less than it (the sort is not stable)
SortedOrders(images) ==
    {o \in [1..Cardinality(images) -> images] :
        /\ \A i \in DOMAIN o, j \in DOMAIN o : o[i] = o[j] => i = j
        /\ \A i \in DOMAIN o, j \in DOMAIN o : i < j => ~Less(o[j], o[i])}

\* The instant a CreationDate string denotes
RECURSIVE Instant(_)
Instant(date) ==
    IF date = <<>> THEN 0
    ELSE Instant(SubSeq(date, 1, Len(date) - 1)) * (MaxDigit + 1)
             + date[Len(date)]

\* findLatestRockyLinuxAMI as called by launchBuildInstance
AmFindLatestAMI ==
    /\ amPc = "find"
    /\ IF ~ArchSupported(amArch)
         THEN /\ amErr' = "unsupported architecture"
              /\ amPc' = "failed"
              /\ UNCHANGED <<amCalls, amSelected>>
       ELSE /\ amCalls' = Append(amCalls, "DescribeImages")
            /\ \E describeOK \in BOOLEAN :
                 IF ~describeOK
                   THEN /\ amErr' = "describing Rocky Linux AMIs"
                        /\ amPc' = "failed"
                        /\ UNCHANGED amSelected
                 ELSE IF amImages = {}
                   THEN /\ amErr' = "no Rocky Linux 9 AMIs found"
                        /\ amPc' = "failed"
                        /\ UNCHANGED amSelected
                 ELSE /\ \E o \in SortedOrders(amImages) :
                           amSelected' = o[1].id
                      /\ amPc' = "found"
                      /\ UNCHANGED amErr
    /\ UNCHANGED <<amArch, amImages>>

\* The rest of launchBuildInstance: RunInstances with the image found
AmRunInstances ==
    /\ amPc = "found"
    /\ amCalls' = Append(amCalls, "RunInstances")
    /\ \E runOK \in BOOLEAN :
         IF runOK
           THEN amPc' = "launched" /\ UNCHANGED amErr
           ELSE amPc' = "failed" /\ amErr' = "launching instance"
    /\ UNCHANGED <<amArch, amImages, amSelected>>

InitLaunch ==
    /\ skipCleanup = FALSE /\ skipBuild = FALSE /\ pushWanted = FALSE
    /\ MainIdle /\ KeyIdle /\ MatrixIdle /\ ClientIdle("noclient") /\ PrepIdle
    /\ PipeIdle /\ ArgIdle /\ MoreIdle
    /\ amPc = "find"
    /\ amArch \in Archs
    /\ \E ids \in SUBSET (1..MaxImages) :
         \E d \in [ids -> Dates] :
             amImages = {[id |-> i, date |-> d[i]] : i \in ids}
    /\ amCalls = <<>>
    /\ amSelected = 0
    /\ amErr = ""

otherThanAmi == <<mainVars, keyVars, matrixVars, clientVars, prepVars,
                  pipeVars, argVars, moreVars>>

NextLaunch ==
    \/ (AmFindLatestAMI /\ UNCHANGED otherThanAmi)
    \/ (AmRunInstances /\ UNCHANGED otherThanAmi)

SpecLaunch == InitLaunch /\ [][NextLaunch]_vars

\* ------------------------------------------------------ waitForInstanceReady

\* polls InstanceRunningWaiter.Wait fits into its 5-minute maximum wait
MaxPolls == 6

ErrWaitTimeout == "waiting for instance to be running: exceeded max wait time"
ErrWaitCtx == "waiting for instance to be running: ctx.Err()"
ErrDescribe == "describing instance"
ErrNotFound == "instance not found in describe result"
ErrNoAddress == "instance has no public IP address"

WrReturn(r) == /\ wrPc' = "returned"
               /\ wrResult' = r

\* what the one DescribeInstances call after the waiter can answer
DescribeOutcomes == IF wrCtxDone THEN {"error"} ELSE {"ok", "error", "empty"}

\* "if instance.PublicIpAddress == nil { return error }"
AddressCheck(addr) == IF addr THEN "ok" ELSE ErrNoAddress

\* waitForInstanceReady is entered
WrCall == /\ wrPc = "idle"
          /\ wrPc' = "waiter"
          /\ UNCHANGED <<wrNode, wrAddr, wrPolls, wrCtxDone, wrResult>>

\* one poll of ec2.NewInstanceRunningWaiter(...).Wait(ctx, ..., 5*time.Minute)
WrWaiterPoll ==
    /\ wrPc = "waiter"
    /\ IF wrCtxDone
       THEN WrReturn(ErrWaitCtx) /\ UNCHANGED wrPolls
       ELSE /\ wrPolls' = wrPolls + 1
            /\ IF wrNode = "running"
               THEN wrPc' = "describe" /\ UNCHANGED wrResult
               ELSE IF wrPolls + 1 >= MaxPolls
                    THEN WrReturn(ErrWaitTimeout)
                    ELSE UNCHANGED <<wrPc, wrResult>>
    /\ UNCHANGED <<wrNode, wrAddr, wrCtxDone>>

\* DescribeInstances, the reservation check and the address check
WrDescribe ==
    /\ wrPc = "describe"
    /\ \E out \in DescribeOutcomes :
         WrReturn(CASE out = "error" -> ErrDescribe
                    [] out = "empty" -> ErrNotFound
                    [] OTHER -> AddressCheck(wrAddr))
    /\ UNCHANGED <<wrNode, wrAddr, wrPolls, wrCtxDone>>

WrInCall == wrPc \in {"waiter", "describe"}

\* the provider moves the node to "running"
WrNodeRuns == /\ WrInCall
              /\ wrNode = "pending"
              /\ wrNode' = "running"
              /\ UNCHANGED <<wrPc, wrAddr, wrPolls, wrCtxDone, wrResult>>

\* the provider assigns the public address
WrAddrAssigned == /\ WrInCall
                  /\ ~wrAddr
                  /\ wrAddr' = TRUE
                  /\ UNCHANGED <<wrPc, wrNode, wrPolls, wrCtxDone, wrResult>>

\* the caller's ctx is cancelled or its deadline passes
WrCancel == /\ WrInCall
            /\ ~wrCtxDone
            /\ wrCtxDone' = TRUE
            /\ UNCHANGED <<wrPc, wrNode, wrAddr, wrPolls, wrResult>>

InitWait ==
    /\ skipCleanup = FALSE /\ skipBuild = FALSE /\ pushWanted = FALSE
    /\ MainIdle /\ KeyIdle /\ MatrixIdle /\ ClientIdle("noclient") /\ PrepIdle
    /\ PipeIdle /\ ArgIdle /\ AmiIdle /\ ParIdle /\ TsIdle
    /\ wrPc = "idle"
    /\ wrNode \in {"pending", "running"}
    /\ wrAddr \in BOOLEAN
    /\ wrPolls = 0
    /\ wrCtxDone \in BOOLEAN
    /\ wrResult = ""

otherThanWait == <<mainVars, keyVars, matrixVars, clientVars, prepVars,
                   pipeVars, argVars, amiVars, parVars, tsVars>>

NextWait ==
    \/ (WrCall /\ UNCHANGED otherThanWait)
    \/ (WrWaiterPoll /\ UNCHANGED otherThanWait)
    \/ (WrDescribe /\ UNCHANGED otherThanWait)
    \/ (WrNodeRuns /\ UNCHANGED otherThanWait)
    \/ (WrAddrAssigned /\ UNCHANGED otherThanWait)
    \/ (WrCancel /\ UNCHANGED otherThanWait)

SpecWait == InitWait /\ [][NextWait]_vars

\* ------------------------------------------------- concurrent BuildWithSSH

\* keyPairName := fmt.Sprintf("geoschem-builder-%s", arch)
KeyPairName(arch) == <<"geoschem-builder", arch>>

\* filepath.Join(os.TempDir(), fmt.Sprintf("%s.pem", keyPairName))
PrivateKeyPath(name) == <<"tmp">> \o name \o <<"pem">>

\* a key name the configuration file may already carry
ConfiguredKey == <<"configured">>

BwGoto(r, to) == bwPc' = [bwPc EXCEPT ![r] = to]

\* BuildWithSSH is called for arch r
BwCall(r) == /\ bwPc[r] = "idle"
             /\ BwGoto(r, "key")
             /\ UNCHANGED <<cfgKeyPair, bwLaunchKey, bwKeyFile>>

\* GetOrCreateKeyPair(ctx, keyPairName, privateKeyPath)
BwKeyPair(r) == /\ bwPc[r] = "key"
                /\ \E ok \in BOOLEAN : BwGoto(r, IF ok THEN "config" ELSE "failed")
                /\ UNCHANGED <<cfgKeyPair, bwLaunchKey, bwKeyFile>>

\* config.AWS.KeyPair = keyPairName
BwWriteConfig(r) == /\ bwPc[r] = "config"
                    /\ cfgKeyPair' = KeyPairName(r)
                    /\ BwGoto(r, "find")
                    /\ UNCHANGED <<bwLaunchKey, bwKeyFile>>

\* launchBuildInstance: findLatestRockyLinuxAMI
BwFindAMI(r) == /\ bwPc[r] = "find"
                /\ \E ok \in BOOLEAN : BwGoto(r, IF ok THEN "run" ELSE "failed")
                /\ UNCHANGED <<cfgKeyPair, bwLaunchKey, bwKeyFile>>

\* launchBuildInstance: RunInstances with KeyName: config.AWS.KeyPair
BwRunInstances(r) ==
    /\ bwPc[r] = "run"
    /\ \E ok \in BOOLEAN :
         IF ok
         THEN /\ bwLaunchKey' = [bwLaunchKey EXCEPT ![r] = cfgKeyPair]
              /\ BwGoto(r, "wait")
         ELSE /\ BwGoto(r, "failed")
              /\ UNCHANGED bwLaunchKey
    /\ UNCHANGED <<cfgKeyPair, bwKeyFile>>

\* waitForInstanceReady
BwWaitReady(r) == /\ bwPc[r] = "wait"
                  /\ \E ok \in BOOLEAN : BwGoto(r, IF ok THEN "client" ELSE "failed")
                  /\ UNCHANGED <<cfgKeyPair, bwLaunchKey, bwKeyFile>>

\* ssh.NewClient(publicIP, "rocky", privateKeyPath)
BwNewClient(r) ==
    /\ bwPc[r] = "client"
    /\ bwKeyFile' = [bwKeyFile EXCEPT ![r] = PrivateKeyPath(KeyPairName(r))]
    /\ BwGoto(r, "connecting")
    /\ UNCHANGED <<cfgKeyPair, bwLaunchKey>>

InitParallel ==
    /\ skipCleanup = FALSE /\ skipBuild = FALSE /\ pushWanted = FALSE
    /\ MainIdle /\ KeyIdle /\ MatrixIdle /\ ClientIdle("noclient") /\ PrepIdle
    /\ PipeIdle /\ ArgIdle /\ AmiIdle /\ WaitIdle /\ TsIdle
    /\ cfgKeyPair \in {NoKey, ConfiguredKey}
    /\ bwPc = [r \in Runs |-> "idle"]
    /\ bwLaunchKey = [r \in Runs |-> NoKey]
    /\ bwKeyFile = [r \in Runs |-> NoKey]

otherThanPar == <<mainVars, keyVars, matrixVars, clientVars, prepVars,
                  pipeVars, argVars, amiVars, waitVars, tsVars>>

NextParallel ==
    \/ \E r \in Runs : BwCall(r) /\ UNCHANGED otherThanPar
    \/ \E r \in Runs : BwKeyPair(r) /\ UNCHANGED otherThanPar
    \/ \E r \in Runs : BwWriteConfig(r) /\ UNCHANGED otherThanPar
    \/ \E r \in Runs : BwFindAMI(r) /\ UNCHANGED otherThanPar
    \/ \E r \in Runs : BwRunInstances(r) /\ UNCHANGED otherThanPar
    \/ \E r \in Runs : BwWaitReady(r) /\ UNCHANGED otherThanPar
    \/ \E r \in Runs : BwNewClient(r) /\ UNCHANGED otherThanPar

SpecParallel == InitParallel /\ [][NextParallel]_vars

\* -------------------------------------------------------------- test-ssh

\* the system-information commands of step 2
InfoCommands == <<"os-release", "uname", "lscpu", "free", "df", "ip route">>

TsRunning == tsExited = ""

\* Results of a call made with main's ctx
TsOutcomes == IF tsCtxDone THEN {"fail"} ELSE {"ok", "fail"}

\* "err = sshBuilder.BuildWithSSH(ctx, buildConfig, *arch)": only err is
\* assigned, the instance ID BuildWithSSH returns is not stored
TsAssigned(id, returned) == id

\* The guard of the cleanup closure
TsCleanupGuard(id, keep) == id # "" /\ ~keep

\* cleanup(): the guard and sshBuilder.CleanupInstance
TsCleanup ==
    IF TsCleanupGuard(tsInstanceID, tsKeep)
      THEN /\ tsTermReq' = tsTermReq + 1
           /\ \E r \in {"ok", "fail"} :
                tsNode' = IF r = "ok" THEN Terminating(tsNode) ELSE tsNode
      ELSE UNCHANGED <<tsTermReq, tsNode>>

\* main starts: the flags are parsed
TsStart ==
    /\ TsRunning /\ tsPc = "idle"
    /\ tsKeep' \in BOOLEAN
    /\ tsPc' = "bws"
    /\ UNCHANGED <<tsInstanceID, tsNode, tsInfo, tsFailed, tsTermReq,
                   tsCtxDone, tsHpc, tsSigAt, tsExited>>

\* Step 1: BuildWithSSH; it can fail before or after the launch
TsBuildWithSSH ==
    /\ TsRunning /\ tsPc = "bws"
    /\ \E r \in TsOutcomes, launched \in BOOLEAN :
         /\ r = "ok" => launched
         /\ launched => ~tsCtxDone
         /\ tsNode' = IF launched THEN "running" ELSE "none"
         /\ tsInstanceID' = TsAssigned(tsInstanceID,
                                       IF launched THEN NodeID ELSE "")
         /\ tsPc' = IF r = "ok" THEN "info" ELSE "fatal"
    /\ UNCHANGED <<tsKeep, tsInfo, tsFailed, tsTermReq, tsCtxDone, tsHpc,
                   tsSigAt, tsExited>>

\* log.Fatalf("Failed to build with SSH")
TsFatal ==
    /\ TsRunning /\ tsPc = "fatal"
    /\ tsExited' = "fatal"
    /\ UNCHANGED <<tsPc, tsKeep, tsInstanceID, tsNode, tsInfo, tsFailed,
                   tsTermReq, tsCtxDone, tsHpc, tsSigAt>>

\* Step 2: one command of the list; an error is logged and the loop goes on
TsInfoCommand ==
    /\ TsRunning /\ tsPc = "info"
    /\ \E r \in TsOutcomes :
         /\ tsInfo' = tsInfo + 1
         /\ tsPc' = IF tsInfo + 1 < Len(InfoCommands) THEN "info" ELSE "prepare"
    /\ UNCHANGED <<tsKeep, tsInstanceID, tsNode, tsFailed, tsTermReq,
                   tsCtxDone, tsHpc, tsSigAt, tsExited>>

\* "err = step(ctx); if err != nil { log.Printf; cleanup(); return }"
TsCleanupStep(from, step, to) ==
    /\ TsRunning /\ tsPc = from
    /\ \E r \in TsOutcomes :
         IF r = "ok"
           THEN /\ tsPc' = to
                /\ UNCHANGED <<tsFailed, tsTermReq, tsNode>>
           ELSE /\ tsFailed' = step
                /\ TsCleanup
                /\ tsPc' = "return"
    /\ UNCHANGED <<tsKeep, tsInstanceID, tsInfo, tsCtxDone, tsHpc, tsSigAt,
                   tsExited>>

\* Step 3: sshBuilder.PrepareInstance
TsPrepare == TsCleanupStep("prepare", "PrepareInstance", "docker")

\* Step 4: sshBuilder.TestDockerConnection
TsTestDocker == TsCleanupStep("docker", "TestDockerConnection", "awscli")

\* Step 5: "aws --version"; an error is only logged
TsAwsCli ==
    /\ TsRunning /\ tsPc = "awscli"
    /\ \E r \in TsOutcomes : tsPc' = "final"
    /\ UNCHANGED <<tsKeep, tsInstanceID, tsNode, tsInfo, tsFailed, tsTermReq,
                   tsCtxDone, tsHpc, tsSigAt, tsExited>>

\* "if *skipCleanup { ... } else { cleanup() }" at the end of main
TsFinal ==
    /\ TsRunning /\ tsPc = "final"
    /\ IF FinalCleanupCalled(tsKeep)
         THEN TsCleanup
         ELSE UNCHANGED <<tsTermReq, tsNode>>
    /\ tsPc' = "return"
    /\ UNCHANGED <<tsKeep, tsInstanceID, tsInfo, tsFailed, tsCtxDone, tsHpc,
                   tsSigAt, tsExited>>

\* main returns
TsReturn ==
    /\ TsRunning /\ tsPc = "return"
    /\ tsExited' = "return"
    /\ UNCHANGED <<tsPc, tsKeep, tsInstanceID, tsNode, tsInfo, tsFailed,
                   tsTermReq, tsCtxDone, tsHpc, tsSigAt>>

\* Interrupt handler goroutine: "<-sigChan", the message, cancel()
TsSignal ==
    /\ TsRunning /\ tsPc # "idle" /\ tsHpc = "wait"
    /\ tsHpc' = "cleanup"
    /\ tsCtxDone' = TRUE
    /\ tsSigAt' = tsPc
    /\ UNCHANGED <<tsPc, tsKeep, tsInstanceID, tsNode, tsInfo, tsFailed,
                   tsTermReq, tsExited>>

\* Interrupt handler goroutine: cleanup()
TsHandlerCleanup ==
    /\ TsRunning /\ tsHpc = "cleanup"
    /\ TsCleanup
    /\ tsHpc' = "exit"
    /\ UNCHANGED <<tsPc, tsKeep, tsInstanceID, tsInfo, tsFailed, tsCtxDone,
                   tsSigAt, tsExited>>

\* Interrupt handler goroutine: os.Exit(1)
TsHandlerExit ==
    /\ TsRunning /\ tsHpc = "exit"
    /\ tsExited' = "handler"
    /\ UNCHANGED <<tsPc, tsKeep, tsInstanceID, tsNode, tsInfo, tsFailed,
                   tsTermReq, tsCtxDone, tsHpc, tsSigAt>>

\* The 30-minute deadline of context.WithTimeout expires
TsDeadline ==
    /\ TsRunning /\ tsPc # "idle" /\ ~tsCtxDone
    /\ tsCtxDone' = TRUE
    /\ UNCHANGED <<tsPc, tsKeep, tsInstanceID, tsNode, tsInfo, tsFailed,
                   tsTermReq, tsHpc, tsSigAt, tsExited>>

InitTestSSH ==
    /\ skipCleanup = FALSE /\ skipBuild = FALSE /\ pushWanted = FALSE
    /\ MainIdle /\ KeyIdle /\ MatrixIdle /\ ClientIdle("noclient") /\ PrepIdle
    /\ PipeIdle /\ ArgIdle /\ AmiIdle /\ WaitIdle /\ ParIdle
    /\ TsIdle

otherThanTs == <<mainVars, keyVars, matrixVars, clientVars, prepVars,
                 pipeVars, argVars, amiVars, waitVars, parVars>>

NextTestSSH ==
    \/ (TsStart /\ UNCHANGED otherThanTs)
    \/ (TsBuildWithSSH /\ UNCHANGED otherThanTs)
    \/ (TsFatal /\ UNCHANGED otherThanTs)
    \/ (TsInfoCommand /\ UNCHANGED otherThanTs)
    \/ (TsPrepare /\ UNCHANGED otherThanTs)
    \/ (TsTestDocker /\ UNCHANGED otherThanTs)
    \/ (TsAwsCli /\ UNCHANGED otherThanTs)
    \/ (TsFinal /\ UNCHANGED otherThanTs)
    \/ (TsReturn /\ UNCHANGED otherThanTs)
    \/ (TsSignal /\ UNCHANGED otherThanTs)
    \/ (TsHandlerCleanup /\ UNCHANGED otherThanTs)
    \/ (TsHandlerExit /\ UNCHANGED otherThanTs)
    \/ (TsDeadline /\ UNCHANGED otherThanTs)

SpecTestSSH == InitTestSSH /\ [][NextTestSSH]_vars

\* ------------------------------------------------------------------ claims

ProcessEnded == exited # "running"

\* C1: in a run where a provisioning step (PrepareInstance,
\* TestDockerConnection) or the build step (BuildContainer) fails after the
\* node reached running, with keep-instance unset, exactly one termination
\* request has been issued for the node when the process ends.
C1_FailedStepTerminatesOnce ==
    (/\ ProcessEnded
     /\ fatalErr \in {"PrepareInstance", "TestDockerConnection", "BuildContainer"}
     /\ ~skipCleanup)
        => termRequests = 1

\* Positions of main between the successful launch request and the first
\* failure or the final cleanup: the run is in progress with a node launched
LaunchedSteps == {"waitReady", "newClient", "waitConn", "testConn", "prepare",
                  "testDocker", "build", "imageInfo", "push", "cleanupImages"}

\* C2: when the context was cancelled (interrupt or deadline) after the launch
\* request succeeded, with keep-instance unset, a termination request has been
\* issued for the launched node when the process ends.
C2_CancelTerminates ==
    (/\ ProcessEnded
     /\ ctxDone
     /\ cancelAt \in LaunchedSteps
     /\ sbInstanceID # NoID
     /\ ~skipCleanup)
        => termRequests >= 1

\* C3: when waitForInstanceReady or WaitForConnection fails inside
\* BuildWithSSH the run is fatal and a termination request has been issued for
\* the returned instance ID when the process ends.
C3_ProvisionTimeoutTerminates ==
    (/\ ProcessEnded
     /\ fatalErr = "BuildWithSSH"
     /\ bwsErr \in {"waitForInstanceReady", "WaitForConnection"}
     /\ ~skipCleanup)
        => (instanceID = NodeID /\ termRequests >= 1)

\* C4: when PushToECR returns an error, a termination request for the node
\* has been issued when the process ends.
C4_PushFailureTerminates ==
    (/\ ProcessEnded
     /\ fatalErr = "PushToECR"
     /\ ~skipCleanup)
        => termRequests >= 1

CleanupInstanceResults ==
    {"ok", "terminating instance", "waiting for instance termination"}

\* C5: with -keep-instance set no termination request is ever issued, on any
\* path; with it unset, a run that completes successfully (main returns) has
\* issued the termination request and, when the provider accepted it, has run
\* the terminated-waiter to its end before exiting (a nil result of
\* CleanupInstance means the provider confirmed the terminated state).
C5_KeepOrDestroy ==
    /\ skipCleanup => termRequests = 0
    /\ (exited = "exit0" /\ ~skipCleanup) =>
          /\ termRequests >= 1
          /\ clResult["main"] \in CleanupInstanceResults
          /\ clResult["main"] # "terminating instance" => waiterRuns >= 1
          /\ clResult["main"] = "ok" => inst = "terminated"

C5_Witness ==
    /\ exited = "exit0"
    /\ ~skipCleanup
    /\ termRequests = 1
    /\ clResult["main"] = "ok"
    /\ inst = "terminated"

\* C6: every termination path (SSHBuilder.CleanupInstance, the deferred
\* Builder.terminateInstance) returns success only after the provider has
\* confirmed that the node reached the terminated state.
C6_SuccessMeansTerminated ==
    /\ \A w \in Callers : clResult[w] = "ok" => inst = "terminated"
    /\ \A n \in Builds : bmTermRet[n] = "ok" => bmInst[n] = "terminated"

\* C7: a teardown failure never masks the original error: the error
\* BuildSingle returns after its deferred termination ran is the error of the
\* step that failed (nil if none failed), also when the termination failed,
\* and a failed termination is reported separately as a warning.
C7_TeardownNeverMasks ==
    /\ bsPc = "return" => bsErr = StepError(bsFailed)
    /\ \A n \in Builds : bmTermRet[n] = "error" => n \in bmWarn

C7_Witness ==
    /\ bsPc = "return"
    /\ bsFailed = "wait"
    /\ bmTermRet[bmIdx] = "error"
    /\ bsErr = "waiting for instance"
    /\ bmIdx \in bmWarn

Called == kpLast.result # "none"

\* The provider registration, the local files and the number of generated
\* keys are what they were when the last call started
KeyStateUnchanged ==
    /\ awsKey = kpLast.pre.aws
    /\ privFile = kpLast.pre.priv
    /\ pubFile = kpLast.pre.pub
    /\ keyGen = kpLast.pre.gen

\* C8: a GetOrCreateKeyPair call made while the provider registration exists
\* and the local private key file is absent fails, with the conflict error
\* once the existence check has found the registration, and performs no
\* action: no key generated, nothing imported or deleted, no file written.
C8_ConflictNoRepair ==
    (Called /\ kpLast.pre.aws # 0 /\ kpLast.pre.priv = 0) =>
        /\ kpLast.result # "ok"
        /\ kpLast.lookup = "found" => kpLast.result = ErrConflict
        /\ kpLast.acts = {}
        /\ KeyStateUnchanged

C8_Witness ==
    /\ Called
    /\ kpLast.pre.aws # 0
    /\ kpLast.pre.priv = 0
    /\ kpLast.lookup = "found"
    /\ kpLast.result = ErrConflict

\* C9: a GetOrCreateKeyPair call made while the provider registration and
\* the local private key file both exist generates and imports nothing and
\* leaves provider and local state unchanged, and succeeds once the existence
\* check has found the registration; so does a call that directly follows a
\* successful call.
C9_Idempotent ==
    /\ (Called /\ kpLast.pre.aws # 0 /\ kpLast.pre.priv # 0) =>
          /\ kpLast.acts = {}
          /\ KeyStateUnchanged
          /\ kpLast.lookup = "found" => kpLast.result = "ok"
    /\ (Called /\ kpLast.prev = "ok") =>
          /\ kpLast.acts = {}
          /\ KeyStateUnchanged
          /\ kpLast.lookup = "found" => kpLast.result = "ok"

C9_Witness ==
    /\ kpLast.prev = "ok"
    /\ kpLast.result = "ok"
    /\ kpLast.acts = {}
    /\ awsKey # 0
    /\ privFile = awsKey

\* C10: when writing the key files fails after the public key was imported,
\* GetOrCreateKeyPair attempts to delete the provider registration and returns
\* the save error, whether or not that delete succeeds.
C10_SaveErrorSurvivesDelete ==
    (/\ Called
     /\ "import" \in kpLast.acts \ kpLast.failed
     /\ kpLast.failed \cap {"writePriv", "writePub"} # {})
        => /\ "delete" \in kpLast.acts
           /\ kpLast.result = ErrSave

C10_Witness ==
    /\ Called
    /\ "import" \in kpLast.acts \ kpLast.failed
    /\ kpLast.failed \cap {"writePriv", "writePub"} # {}
    /\ "delete" \in kpLast.failed
    /\ kpLast.result = ErrSave
    /\ awsKey # 0

\* The last call found no registration and left one behind
Registered == Called /\ kpLast.pre.aws = 0 /\ awsKey # 0

\* C11 as stated: whenever the provider registration exists, the local
\* private key file holds the private half of the registered key.
C11_RegistrationHasPrivateKey == awsKey # 0 => privFile = awsKey

\* C11: a GetOrCreateKeyPair call that leaves a new provider registration
\* behind also leaves the matching private key file, except when writing the
\* private key failed and the best-effort DeleteKeyPair failed as well; the
\* call then returned the save error.
C11_RegisteredOrSaveError ==
    Registered =>
        \/ privFile = awsKey
        \/ /\ kpLast.result = ErrSave
           /\ {"writePriv", "delete"} \subseteq kpLast.failed

C11_Witness ==
    /\ Registered
    /\ privFile # awsKey
    /\ kpLast.result = ErrSave
    /\ {"writePriv", "delete"} \subseteq kpLast.failed

\* C12: a GetOrCreateKeyPair call returns nil only when the provider
\* registration exists and the local private key file holds the private half
\* of the registered key.
C12_SuccessMeansPaired ==
    (Called /\ kpLast.result = "ok") => (awsKey # 0 /\ privFile = awsKey)

WfcReturned == wfcPc = "returned"

\* C13: a WaitForConnection call that was not ended by its context, against
\* a host that first accepts attempt N: if N <= maxRetries it returns nil
\* after exactly N Connect attempts with one 10-second delay between
\* consecutive attempts; if N > maxRetries it makes exactly maxRetries
\* attempts and returns the connection-failed error.
C13_ReconnectLoop ==
    (WfcReturned /\ wfcResult # ErrCtx) =>
        IF wfcN <= wfcMax
          THEN /\ wfcResult = "ok"
               /\ wfcAttempts = wfcN
               /\ wfcSlept = RetryDelay * (wfcN - 1)
          ELSE /\ wfcResult = ErrConnFailed
               /\ wfcAttempts = wfcMax

C13_Witness ==
    /\ WfcReturned
    /\ wfcMax = MaxRetries
    /\ wfcN = MaxRetries
    /\ wfcResult = "ok"
    /\ wfcAttempts = MaxRetries
    /\ wfcSlept = RetryDelay * (MaxRetries - 1)

CmdCalled == cLast.op # "none"

\* C20: ExecuteCommand, ExecuteCommandStream and UploadFile called on a
\* client that has no connection yet (no successful handshake) or whose
\* connection was closed return an error and run no remote command.
C20_UnusableSession ==
    (CmdCalled /\ cLast.pre \in {"noclient", "nil", "closed"}) =>
        /\ cLast.result # "ok"
        /\ ~cLast.ran

C20_Witness ==
    /\ CmdCalled
    /\ cLast.op = "UploadFile"
    /\ cLast.pre = "closed"
    /\ cLast.result = ErrSession
    /\ ~cLast.ran

Started(step) == \E i \in 1..Len(ppLog) : ppLog[i] = step

Prefix(p, s) == Len(p) <= Len(s) /\ SubSeq(s, 1, Len(p)) = p

\* The reboot check returned without error and its output reports exit
\* status st
CheckReports(st) == ppCheck.made /\ ~ppCheck.err /\ ppCheck.status = st

RebootPath ==
    <<"update", "check", "reboot", "sleep", "poll", "reconnect", "runtime">>

\* C14: when the reboot check reports restart required (exit status 1) the
\* restart command, the grace period, the running poll and a
\* WaitForConnection with the 30 attempts of the initial connect precede the
\* runtime install; when it reports not required (exit status 0) there is no
\* restart command and no reachability wait and the runtime install is the
\* step that follows the check.
C14_RebootTransition ==
    /\ CheckReports(1) =>
          /\ Len(ppLog) >= 3 => ppLog[3] = "reboot"
          /\ Started("runtime") =>
                /\ Prefix(RebootPath, ppLog)
                /\ wfcMax = InitialRetries
                /\ wfcResult = "ok"
    /\ CheckReports(0) =>
          /\ ~Started("reboot")
          /\ ~Started("reconnect")
          /\ Len(ppLog) >= 3 => ppLog[3] = "runtime"

\* C15: the restart command is issued only when the reboot check reports
\* exit status 1; whenever the output reports exit status 0, whatever else it
\* contains, no restart command is issued.
C15_RebootOnlyOnStatusOne ==
    Started("reboot") => (ppCheck.made /\ ppCheck.status = 1)

\* C16: when the reboot check command returns an error no restart command is
\* issued, whatever output came with the error, and PrepareInstance goes on
\* to the runtime install instead of returning.
C16_CheckErrorMeansNoReboot ==
    (ppCheck.made /\ ppCheck.err) =>
        /\ ~Started("reboot")
        /\ ~Started("reconnect")
        /\ ppPc = "runtime" \/ (Len(ppLog) >= 3 /\ ppLog[3] = "runtime")

C16_Witness ==
    /\ ppCheck.made
    /\ ppCheck.err
    /\ Contains(ppCheck.out, <<"1">>)
    /\ ppLog = <<"update", "check", "runtime", "awscli", "tools">>
    /\ ppResult = "ok"

\* Position of a step in the order of PrepareInstance
Rank(step) ==
    IF step = "update" THEN 1
    ELSE IF step = "check" THEN 2
    ELSE IF step = "reboot" THEN 3
    ELSE IF step = "sleep" THEN 4
    ELSE IF step = "poll" THEN 5
    ELSE IF step = "reconnect" THEN 6
    ELSE IF step = "runtime" THEN 7
    ELSE IF step = "awscli" THEN 8
    ELSE 9

\* Every step started follows the completion of the steps ahead of it in the
\* order, and no step is run twice
InOrder ==
    \A i \in 1..Len(ppLog) : \A j \in 1..Len(ppLog) :
        i < j => Rank(ppLog[i]) < Rank(ppLog[j])

\* C17 as stated: the steps run in order and PrepareInstance returns nil
\* only after package update, reboot check, runtime install, CLI install and
\* toolchain install, and every step of a reboot, completed successfully.
C17_OrderedAllSucceeded ==
    /\ InOrder
    /\ ppResult = "ok" =>
          /\ {"update", "check", "runtime", "awscli", "tools"} \subseteq ppOK
          /\ ppFailed = {}

\* C17: the steps run in the order package update, reboot check, reboot
\* (restart, grace period, running poll, reconnect), runtime install, CLI
\* install, toolchain install, and PrepareInstance returns nil only after the
\* three installs succeeded, after the package update succeeded and the
\* reboot check was made unless skipUpdate skipped both, and after the
\* running poll and the reconnect succeeded when a restart was initiated;
\* only the reboot check and the restart command may have failed.
C17_OrderedReady ==
    /\ InOrder
    /\ ppResult = "ok" =>
          /\ {"runtime", "awscli", "tools"} \subseteq ppOK
          /\ ~ppSkip => ("update" \in ppOK /\ Started("check"))
          /\ ppSkip => ppLog = <<"runtime", "awscli", "tools">>
          /\ Started("reboot") => {"sleep", "poll", "reconnect"} \subseteq ppOK
          /\ ppFailed \subseteq {"check", "reboot"}

C17_Witness ==
    /\ ppResult = "ok"
    /\ ppLog = <<"update", "check", "reboot", "sleep", "poll", "reconnect",
                 "runtime", "awscli", "tools">>
    /\ ppFailed = {"reboot"}

NonRebootSteps == {"update", "runtime", "awscli", "tools"}

Count(step) == Cardinality({i \in 1..Len(ppLog) : ppLog[i] = step})

\* C18: when the package update, the runtime install, the CLI install or the
\* toolchain install fails, PrepareInstance returns the error that names the
\* step, the failed command was run exactly once and it is the last step run.
C18_FailureIsFatal ==
    \A s \in NonRebootSteps :
        s \in ppFailed =>
            /\ ppPc = "returned"
            /\ ppResult = PrepError(s)
            /\ Count(s) = 1
            /\ ppLog[Len(ppLog)] = s

C18_Witness ==
    /\ "awscli" \in ppFailed
    /\ ppPc = "returned"
    /\ ppResult = "installing AWS CLI"
    /\ ppLog[Len(ppLog)] = "awscli"
    /\ "runtime" \in ppOK

\* C19: when, after a restart was initiated, the running poll fails or
\* WaitForConnection does not return nil, PrepareInstance returns the
\* corresponding reboot-recovery error and neither the runtime install nor a
\* later step is run.
C19_RebootRecoveryFailed ==
    \A s \in {"poll", "reconnect"} :
        s \in ppFailed =>
            /\ ppPc = "returned"
            /\ ppResult = PrepError(s)
            /\ ppResult \in {"waiting for instance after reboot",
                             "reconnecting SSH after reboot"}
            /\ ~Started("runtime")
            /\ ~Started("awscli")
            /\ ~Started("tools")

C19_Witness ==
    /\ "reconnect" \in ppFailed
    /\ wfcResult = ErrConnFailed
    /\ wfcAttempts = PostRebootRetries
    /\ ppResult = "reconnecting SSH after reboot"
    /\ ~Started("runtime")

\* C21: a Client value completes at most one handshake: a Client that was
\* connected before is not connected a second time and its connection field
\* is not replaced; the reconnect after a reboot uses a fresh Client.
C21_NoSecondHandshake == cShakes <= 1

\* The call that last returned had reached session.Run
CmdRan == CmdCalled /\ cLast.ran

\* C22 as stated: whenever the context was cancelled before an ExecuteCommand
\* or ExecuteCommandStream call returned, the kill signal was sent and the
\* call returned ctx.Err() with no output.
C22_CancelAlwaysWins ==
    (CmdRan /\ cLast.op # "UploadFile" /\ cLast.ctxAt) =>
        /\ cLast.result = ErrCtx
        /\ cLast.killed
        /\ ~cLast.out

\* C22: whenever the context is cancelled while the remote command of an
\* ExecuteCommand or ExecuteCommandStream call is still running, the kill
\* signal is sent and the call returns ctx.Err() with no output; a call
\* returns a result with the context cancelled only when the command had
\* already ended, and never returns success for a command still running.
C22_CancelWhileRunning ==
    (CmdRan /\ cLast.op # "UploadFile") =>
        /\ (cLast.ctxAt /\ cLast.pending) =>
              (cLast.result = ErrCtx /\ cLast.killed /\ ~cLast.out)
        /\ cLast.result = ErrCtx => (cLast.ctxAt /\ cLast.killed /\ ~cLast.out)
        /\ cLast.result # ErrCtx => ~cLast.pending

C22_Witness ==
    /\ CmdRan
    /\ cLast.op = "ExecuteCommand"
    /\ cLast.ctxAt
    /\ cLast.pending
    /\ cLast.result = ErrCtx
    /\ cLast.killed

\* C23: at most one remote command issued through the session has started
\* and not yet ended.
C23_OneCommandInFlight == InFlight <= 1

\* The pipeline has run the remote command cmd
PlRan(cmd) == \E i \in DOMAIN plLog : plLog[i].cmd = cmd

\* ... and one run of it succeeded
PlOK(cmd) == \E i \in DOMAIN plLog : plLog[i] = Run(cmd, TRUE)

PlCount(cmd) == Cardinality({i \in DOMAIN plLog : plLog[i].cmd = cmd})

\* The pipeline step a remote command belongs to: 1 clone, 2 verify the
\* build descriptor, 3 build, 4 tag, 5 registry push, 6 cleanup
StageOf(cmd) ==
    CASE cmd \in {"rm", "clone"} -> 1
      [] cmd \in {"test", "context"} -> 2
      [] cmd = "build" -> 3
      [] cmd \in {"tag", "list", "imageinfo"} -> 4
      [] cmd \in {"login", "ecrtag", "ecrtagarch", "push", "pusharch"} -> 5
      [] cmd \in {"rmi1", "rmi2", "prune"} -> 6

\* The command whose success is the success of a step
StageCommand(stage) ==
    CASE stage = 1 -> "clone"
      [] stage = 2 -> "test"
      [] stage = 3 -> "build"
      [] stage = 4 -> "tag"
      [] stage = 5 -> "pusharch"

\* C24: the pipeline's commands run in the order clone, verify descriptor,
\* build, tag, (optional) push, cleanup, and a command of a step is run only
\* after the steps before it succeeded: no build after a failed clone or a
\* missing descriptor, no tag or push after a failed build, a push only when
\* one was requested, and cleanup after a requested push only when the push
\* succeeded.
C24_PipelineOrder ==
    \A i \in DOMAIN plLog :
        LET stage == StageOf(plLog[i].cmd) IN
        /\ \A j \in 1..(i - 1) : StageOf(plLog[j].cmd) <= stage
        /\ \A q \in 1..4 :
              q < stage => \E j \in 1..(i - 1) : plLog[j] = Run(StageCommand(q), TRUE)
        /\ stage = 5 => plFlags.ecr # <<>> /\ ~plFlags.skipPush
        /\ (stage = 6 /\ plFlags.ecr # <<>> /\ ~plFlags.skipPush) =>
              \E j \in 1..(i - 1) : plLog[j] = Run(StageCommand(5), TRUE)

C24_Witness ==
    /\ plPc = "done"
    /\ PlOK("build")
    /\ PlOK("pusharch")
    /\ PlRan("prune")

\* The words a shell should make of the build arguments visited in "order"
RECURSIVE ExpectedArgWords(_, _)
ExpectedArgWords(args, order) ==
    IF order = <<>> THEN <<>>
    ELSE << <<"--build-arg">>, <<Head(order), "=">> \o args[Head(order)] >>
             \o ExpectedArgWords(args, Tail(order))

\* C25: the command built by buildDockerImage, split into words by a POSIX
\* shell, has for every configured build argument exactly one word
\* KEY=<original value>, each following a --build-arg word, whatever
\* characters the value contains and in whatever order the map was visited.
C25_BuildArgRoundTrip ==
    baPc = "parsed" =>
        /\ baWords = << <<"cd">>, <<"dir">>, <<"&&">>, <<"podman">>, <<"build">> >>
                        \o ExpectedArgWords(baArgs, baOrder)
                        \o << <<"-t">>, <<"img">>, <<".">> >>
        /\ \A k \in DOMAIN baArgs :
              Cardinality({i \in DOMAIN baWords :
                              baWords[i] = <<k, "=">> \o baArgs[k]}) = 1
        /\ Cardinality({i \in DOMAIN baWords : baWords[i] = <<"--build-arg">>})
              = Cardinality(DOMAIN baArgs)

C25_Witness ==
    /\ baPc = "parsed"
    /\ DOMAIN baArgs = {"K1", "K2"}
    /\ baOrder = <<"K2", "K1">>
    /\ baArgs["K1"] = <<"'", " ">>
    /\ baArgs["K2"] = <<"\"", "$">>

\* C26: when the main tag's push succeeded and the architecture tag's push
\* failed, PushToECR returns the error of the architecture tag's push, the
\* main tag was pushed exactly once and no command follows the failed push.
C26_SecondPushFailure ==
    (PlRan("pusharch") /\ ~PlOK("pusharch")) =>
        /\ plErr = "pushing arch-specific image failed"
        /\ plFatal = "ECR push failed"
        /\ plPc = "fatal"
        /\ PlOK("push")
        /\ PlCount("push") = 1
        /\ PlCount("pusharch") = 1
        /\ plLog[Len(plLog)].cmd = "pusharch"

C26_Witness ==
    /\ PlOK("push")
    /\ PlRan("pusharch")
    /\ ~PlOK("pusharch")
    /\ plPc = "fatal"

\* PushToECR was called and has returned
PushCalled ==
    /\ plFlags.ecr # <<>> /\ ~plFlags.skipPush
    /\ PlRan("imageinfo")
    /\ plPc \in {"cleanup", "done", "fatal"}

\* C27: once PushToECR has pushed the main tag, whatever the result, it also
\* attempts the push of the architecture tag; each tag is pushed at most once.
C27_PushesIndependent ==
    /\ PlCount("push") <= 1
    /\ PlCount("pusharch") <= 1
    /\ (PushCalled /\ PlRan("push")) => PlRan("pusharch")

C29_CleanupBestEffort ==
    plCleanupRet # "" =>
        /\ \A c \in {"rmi1", "rmi2", "prune"} : PlCount(c) = 1
        /\ plCleanupRet = "nil"
        /\ plPc = "done"
        /\ plFatal = ""

C29_Witness ==
    /\ plPc = "done"
    /\ PlRan("prune")
    /\ ~PlOK("prune")
    /\ ~PlOK("rmi1")
    /\ ~PlOK("rmi2")
    /\ plCleanupRet = "nil"

\* C30: the image findLatestRockyLinuxAMI returns is one of the candidates and
\* none of them was published later; with an architecture other than x86_64
\* and arm64 no provider call is made; with no candidate image the launch
\* fails without a RunInstances call.
C30_LatestImage ==
    /\ amSelected # 0 =>
          \E img \in amImages :
              /\ img.id = amSelected
              /\ \A o \in amImages : Instant(img.date) >= Instant(o.date)
    /\ (amPc # "find" /\ amArch \notin {"x86_64", "arm64"}) =>
          (amPc = "failed" /\ amCalls = <<>>)
    /\ (amPc # "find" /\ amImages = {}) =>
          /\ amPc = "failed"
          /\ \A i \in DOMAIN amCalls : amCalls[i] # "RunInstances"
    /\ (amPc \in {"found", "launched"}) => amSelected # 0

C30_Witness ==
    /\ amPc = "launched"
    /\ amCalls = <<"DescribeImages", "RunInstances">>
    /\ amSelected = 2
    /\ \E x \in amImages, y \in amImages :
          /\ x.id = 1 /\ y.id = 2
          /\ Instant(y.date) > Instant(x.date)
          /\ x.date[1] < y.date[1]

\* C31: waitForInstanceReady fails only when its timeout elapses (or the
\* provider call itself fails or the ctx is done); a node that is running
\* without an address yet is polled again, never reported as a failure
C31_FailsOnlyOnTimeout ==
    (wrPc = "returned" /\ wrResult # "ok")
        => wrResult \in {ErrWaitTimeout, ErrWaitCtx, ErrDescribe, ErrNotFound}

\* C32: in every interleaving of two concurrent BuildWithSSH runs each run
\* launches its node with its own key name geoschem-builder-<its arch> and
\* connects with its own key file
C32_OwnKeyCredential ==
    \A r \in Runs :
        /\ bwLaunchKey[r] # NoKey => bwLaunchKey[r] = KeyPairName(r)
        /\ bwKeyFile[r] # NoKey => bwKeyFile[r] = PrivateKeyPath(KeyPairName(r))

\* the ctx became done ahead of an attempt the loop would still make, or
\* during the delay that follows a failed attempt
CancelledInTime ==
    \/ wfcCancel.at = "delay"
    \/ wfcCancel.at = "loop" /\ wfcCancel.i < wfcMax

\* C35: WaitForConnection never makes more than maxRetries attempts; when its
\* ctx is cancelled before an attempt or during an inter-attempt delay it
\* makes no further Connect attempt and returns the cancellation error, not
\* the attempts-exhausted error
C35_HonorsCancellation ==
    /\ wfcAttempts <= wfcMax
    /\ CancelledInTime =>
          /\ wfcAttempts = wfcCancel.attempts
          /\ WfcReturned => wfcResult = ErrCtx

\* cancelled during the delay after the last attempt the loop allows
C35_Witness ==
    /\ WfcReturned
    /\ wfcCancel.at = "delay"
    /\ wfcCancel.i + 1 = wfcMax
    /\ wfcAttempts = wfcMax
    /\ wfcResult = ErrCtx

\* C33: once the ctx is cancelled during a PrepareInstance step, the step in
\* progress is the last command started on the node, and PrepareInstance
\* returns an error
C33_CancellationStopsProvisioning ==
    /\ Cardinality(ppLate) <= 1
    /\ (ppLate # {} /\ ppPc = "returned") => ppResult # "ok"

\* C34: the workflow does not wait for the restart command to return: once
\* the command has been issued the step to the grace period can be taken,
\* whether or not the command has ended
C34_RebootNotAwaited ==
    ppPc = "rebooting" => ENABLED PpRebootReturn

\* C36: in every interleaving of the interrupt handler with main the
\* termination request for the node is issued at most once, and a handler
\* that runs cleanup() after the launch succeeded finds the launched node's
\* ID in instanceID
C36_OneRequestAndHandlerSeesNode ==
    /\ termRequests <= 1
    /\ (hpc = "cleanup" /\ sbInstanceID # NoID) => instanceID = sbInstanceID

\* BuildSingle has returned for combination n
BsReturned(n) == n < bmIdx \/ (n = bmIdx /\ bsPc = "return")

\* a node was launched for combination n
BsLaunched(n) == bmInst[n] # "none"

\* C37: BuildSingle issues the termination request exactly once on every
\* return path that follows a successful launch, not before it returns, and
\* never when the launch failed
C37_TerminateOncePerLaunch ==
    \A n \in Builds :
        /\ bmTermReq[n] <= 1
        /\ ~BsLaunched(n) => bmTermReq[n] = 0
        /\ (BsReturned(n) /\ BsLaunched(n)) => bmTermReq[n] = 1
        /\ (n = bmIdx /\ bsPc \in {"launch", "wait", "build", "defer"})
              => bmTermReq[n] = 0

\* the first build succeeded and returned with one request issued, the
\* second build returned from a failed launch with none
C37_Witness ==
    /\ bmIdx = 2 /\ bsPc = "return" /\ bsFailed = "launch"
    /\ ~BsLaunched(2) /\ bmTermReq[2] = 0
    /\ BsLaunched(1) /\ bmTermReq[1] = 1

\* nodes launched whose termination has not been requested
Unrequested == {n \in Builds : BsLaunched(n) /\ bmTermReq[n] = 0}

\* C38: the builds of the matrix run one after another: at most one launched
\* node is without a termination request, nothing is launched for a later
\* combination while or after a build fails, and when BuildMatrix has
\* returned every launched node has had its termination requested
C38_SequentialMatrix ==
    /\ Cardinality(Unrequested) <= 1
    /\ \A n \in Builds : n > bmIdx => ~BsLaunched(n)
    /\ \A n \in Builds : n < bmIdx => (BsLaunched(n) /\ bmTermReq[n] = 1)
    /\ bsErr # "" => (bsPc \in {"defer", "return"} /\ bsFailed # "")
    /\ bmResult = "error" => bsErr # ""
    /\ bmResult # "running" => Unrequested = {}

\* the second build failed in its wait: the matrix ended with an error, both
\* launched nodes had termination requested, the third was never launched
C38_Witness ==
    /\ bmResult = "error"
    /\ bmIdx = 2 /\ bsFailed = "wait"
    /\ bmTermReq[1] = 1 /\ bmTermReq[2] = 1
    /\ \A n \in Builds : n > 2 => (~BsLaunched(n) /\ bmTermReq[n] = 0)

\* the interrupt arrived after BuildWithSSH had returned the launched node
TsInterruptedAfterLaunch ==
    /\ tsExited = "handler"
    /\ tsSigAt \in {"info", "prepare", "docker", "awscli", "final"}

\* main cleaned up and returned because PrepareInstance or
\* TestDockerConnection failed
TsFailedAfterLaunch ==
    /\ tsExited = "return"
    /\ tsFailed \in {"PrepareInstance", "TestDockerConnection"}

\* C39: when cmd/test-ssh exits without -keep-instance after PrepareInstance
\* or TestDockerConnection failed, or after an interrupt, the cleanup closure
\* has issued a termination request for the launched node
C39_CleanupTerminatesNode ==
    (~tsKeep /\ (TsFailedAfterLaunch \/ TsInterruptedAfterLaunch))
        => tsTermReq >= 1

====
